---- MODULE Spec2Model ----
(***************************************************************************)
(* hyper-agent-session-sidebar: the terminal-output classification engine  *)
(* of index.js (CWD extraction with chunk buffering, activity tracking,    *)
(* session lifecycle, git debounce) and of the two versions of             *)
(* claude-detection.js (assistant detection state machine).                *)
(*                                                                         *)
(* Text is modelled as a sequence of tokens.  A token stands for a piece   *)
(* of terminal output: w is what it is, n its length in characters, i an   *)
(* index (spinner glyph index, filler character), caps the CWD patterns    *)
(* whose regex matches the piece, each with the text of capture group 1.   *)
(* A path is a sequence of components ("C", ":", "\\", "proj").            *)
(***************************************************************************)
EXTENDS Integers, Sequences, FiniteSets, TLC

VARIABLES
  now,               \* Date.now()
  advances,          \* how many times the clock was advanced
  detector,          \* which version of claude-detection.js is beside index.js
  userConfig,        \* index.js: what the user's .hyper.js sets of the plugin's options
  store,             \* the host's Redux store: [sessions, activeUid]
  sessions,          \* index.js: const sessions = {}
  activeUid,         \* index.js: let activeUid
  cwdBuffers,        \* index.js: const cwdBuffers = {}
  cwdBufferTimeouts, \* index.js: const cwdBufferTimeouts = {}
  gitDebounce,       \* index.js: const gitDebounce = {}
  visibleSessions,   \* index.js: const visibleSessions = new Set()
  gitExec,           \* the git child processes started by getGitInfo and not yet finished
  polled,            \* whether pollSessions has run at this reading of the clock
  received,          \* history: the chunks parsed per session since its last flush
  xin,               \* input of the function under test (pure-function specifications)
  xout,              \* its result
  cleared            \* history: the pending timers SESSION_PTY_EXIT cleared, as <<uid, map>>

vars == <<now, advances, detector, userConfig, store, sessions, activeUid, cwdBuffers,
          cwdBufferTimeouts, gitDebounce, visibleSessions, gitExec, polled,
          received, xin, xout, cleared>>

----------------------------------------------------------------------------
(* Sequences and strings *)

RECURSIVE SumLen(_)
SumLen(s) == IF s = <<>> THEN 0 ELSE Head(s).n + SumLen(Tail(s))

\* data.length
StrLen(data) == SumLen(data)

Upper(c) == CASE c = "c" -> "C" [] c = "d" -> "D" [] OTHER -> c

Lower(c) == CASE c = "C" -> "c" [] c = "D" -> "d"
              [] c = "Windows" -> "windows" [] c = "WINDOWS" -> "windows"
              [] c = "System32" -> "system32"
              [] c = "Program Files" -> "program files"
              [] OTHER -> c

IsDriveLetter(c) == c \in {"c", "d", "C", "D"}

\* String.prototype.trim on a captured path
RECURSIVE TrimLeft(_)
TrimLeft(p) == IF p # <<>> /\ Head(p) = " " THEN TrimLeft(Tail(p)) ELSE p

RECURSIVE TrimRight(_)
TrimRight(p) ==
  IF p # <<>> /\ p[Len(p)] = " " THEN TrimRight(SubSeq(p, 1, Len(p) - 1)) ELSE p

Trim(p) == TrimRight(TrimLeft(p))

\* .replace(/\//g, '\\')
SlashToBackslash(p) == [k \in 1..Len(p) |-> IF p[k] = "/" THEN "\\" ELSE p[k]]

\* decodeURIComponent
DecodeURIComponent(p) == [k \in 1..Len(p) |-> IF p[k] = "%20" THEN " " ELSE p[k]]

\* process.env.USERPROFILE || process.env.HOME || ''
HomePath == <<"C", ":", "\\", "Users", "\\", "alex">>

----------------------------------------------------------------------------
(* CWD patterns *)

\* transform of 'OSC 7'
TransformOsc7(match) ==
  LET path == DecodeURIComponent(match) IN
  IF Len(path) >= 3 /\ path[1] = "/" /\ IsDriveLetter(path[2]) /\ path[3] = "/"
  THEN <<Upper(path[2]), ":">> \o SlashToBackslash(SubSeq(path, 3, Len(path)))
  ELSE path

\* transform of 'MINGW' and of 'Unix Path': match[1] is the drive letter
TransformDrive(match) ==
  LET rest == SubSeq(match, 3, Len(match)) IN
  <<Upper(match[2]), ":">> \o
    SlashToBackslash(IF rest = <<>> THEN <<"\\">> ELSE rest)

\* transform of 'Tilde Prompt'
TransformTilde(match) ==
  SlashToBackslash(IF match = <<"~">> THEN HomePath
                   ELSE IF match # <<>> /\ Head(match) = "~"
                        THEN HomePath \o Tail(match)
                        ELSE match)

\* skipIf of 'CMD Prompt' and of 'Full Windows Path'
SkipSystemPath(path) ==
  \E k \in 1..Len(path) :
    /\ path[k] = "\\"
    /\ k < Len(path)
    /\ \/ Lower(path[k + 1]) = "program files"
       \/ /\ Lower(path[k + 1]) \in {"windows", "system32"}
          /\ k + 2 <= Len(path)
          /\ path[k + 2] = "\\"

\* variant: PS Prompt is given a higher priority than MINGW, which is declared before it
cwdPatterns_PsAboveMingw == <<
  [name |-> "OSC 7",             priority |-> 100, transform |-> "osc7",  skipIf |-> FALSE],
  [name |-> "OSC 9;9",           priority |-> 98,  transform |-> "none",  skipIf |-> FALSE],
  [name |-> "ConPTY",            priority |-> 97,  transform |-> "none",  skipIf |-> FALSE],
  [name |-> "MINGW",             priority |-> 70,  transform |-> "drive", skipIf |-> FALSE],
  [name |-> "PS Prompt",         priority |-> 85,  transform |-> "none",  skipIf |-> FALSE],
  [name |-> "Directory Output",  priority |-> 65,  transform |-> "none",  skipIf |-> FALSE],
  [name |-> "CMD Prompt",        priority |-> 60,  transform |-> "none",  skipIf |-> TRUE],
  [name |-> "Tilde Prompt",      priority |-> 55,  transform |-> "tilde", skipIf |-> FALSE],
  [name |-> "Full Windows Path", priority |-> 40,  transform |-> "none",  skipIf |-> TRUE],
  [name |-> "Unix Path",         priority |-> 35,  transform |-> "drive", skipIf |-> FALSE] >>

cwdPatterns == <<
  [name |-> "OSC 7",             priority |-> 100, transform |-> "osc7",  skipIf |-> FALSE],
  [name |-> "OSC 9;9",           priority |-> 98,  transform |-> "none",  skipIf |-> FALSE],
  [name |-> "ConPTY",            priority |-> 97,  transform |-> "none",  skipIf |-> FALSE],
  [name |-> "MINGW",             priority |-> 85,  transform |-> "drive", skipIf |-> FALSE],
  [name |-> "PS Prompt",         priority |-> 70,  transform |-> "none",  skipIf |-> FALSE],
  [name |-> "Directory Output",  priority |-> 65,  transform |-> "none",  skipIf |-> FALSE],
  [name |-> "CMD Prompt",        priority |-> 60,  transform |-> "none",  skipIf |-> TRUE],
  [name |-> "Tilde Prompt",      priority |-> 55,  transform |-> "tilde", skipIf |-> FALSE],
  [name |-> "Full Windows Path", priority |-> 40,  transform |-> "none",  skipIf |-> TRUE],
  [name |-> "Unix Path",         priority |-> 35,  transform |-> "drive", skipIf |-> FALSE] >>

\* pattern.transform(path), when the pattern defines one
ApplyTransform(pattern, path) ==
  CASE pattern.transform = "osc7"  -> TransformOsc7(path)
    [] pattern.transform = "drive" -> TransformDrive(path)
    [] pattern.transform = "tilde" -> TransformTilde(path)
    [] OTHER -> path

\* variant: skipIf is never consulted
ApplySkipIf_Never(pattern, path) == FALSE

\* pattern.skipIf && pattern.skipIf(path)
ApplySkipIf(pattern, path) == pattern.skipIf /\ SkipSystemPath(path)

\* data.match(pattern.compiled): the leftmost piece of the text the regex
\* matches, as capture group 1; <<>> when the regex matches nowhere
RECURSIVE CapOf(_, _)
CapOf(caps, name) ==
  IF caps = <<>> THEN <<>>
  ELSE IF Head(caps).pat = name THEN Head(caps).cap ELSE CapOf(Tail(caps), name)

RECURSIVE RegexMatch(_, _)
RegexMatch(data, name) ==
  IF data = <<>> THEN <<>>
  ELSE IF CapOf(Head(data).caps, name) # <<>> THEN CapOf(Head(data).caps, name)
       ELSE RegexMatch(Tail(data), name)

NoResult == [path |-> <<>>, patternName |-> "null", priority |-> 0]

\* matches.sort((a, b) => b.priority - a.priority): stable, descending
RECURSIVE InsertByPriority(_, _)
InsertByPriority(sorted, m) ==
  IF sorted = <<>> THEN <<m>>
  ELSE IF Head(sorted).priority >= m.priority
       THEN <<Head(sorted)>> \o InsertByPriority(Tail(sorted), m)
       ELSE <<m>> \o sorted

RECURSIVE SortByPriority(_)
SortByPriority(matches) ==
  IF matches = <<>> THEN <<>>
  ELSE InsertByPriority(SortByPriority(SubSeq(matches, 1, Len(matches) - 1)),
                        matches[Len(matches)])

\* the loop of extractCwd over the registry: the pushed matches, in registry order
RECURSIVE CollectMatches(_, _)
CollectMatches(registry, data) ==
  IF registry = <<>> THEN <<>>
  ELSE LET pattern == Head(registry)
           match   == RegexMatch(data, pattern.name)
           path    == ApplyTransform(pattern, Trim(match))
           rest    == CollectMatches(Tail(registry), data)
       IN IF match = <<>> THEN rest
          ELSE IF ApplySkipIf(pattern, path) THEN rest
          ELSE <<[path |-> path, patternName |-> pattern.name,
                  priority |-> pattern.priority]>> \o rest

\* variant: the first collected match, unsorted
BestMatch_First(matches) ==
  IF Len(matches) > 0 THEN matches[1] ELSE NoResult

\* the choice among the collected matches
BestMatch(matches) ==
  IF Len(matches) > 0 THEN SortByPriority(matches)[1] ELSE NoResult

ExtractCwdWith(registry, data) == BestMatch(CollectMatches(registry, data))

\* extractCwd(data) over compiledCwdPatterns
ExtractCwd(data) == ExtractCwdWith(cwdPatterns, data)

----------------------------------------------------------------------------
(* Tokens *)

Tok(w, n) == [w |-> w, n |-> n, i |-> 0, caps |-> <<>>]

\* filler text of n characters c, matched by no pattern
Txt(c, n) == [w |-> "txt", n |-> n, i |-> c, caps |-> <<>>]

\* SPINNER_CHARS[i]
Spin(i) == [w |-> "spin", n |-> 1, i |-> i, caps |-> <<>>]

\* a piece of n characters matched by the CWD patterns of caps
Prompt(n, caps) == [w |-> "prompt", n |-> n, i |-> 0, caps |-> caps]

Cap(pat, cap) == [pat |-> pat, cap |-> cap]

\* a + b on strings; runs of the same filler character merge
Concat(a, b) ==
  IF a = <<>> THEN b
  ELSE IF b = <<>> THEN a
  ELSE LET x == a[Len(a)]
           y == b[1]
       IN IF x.w = "txt" /\ y.w = "txt" /\ x.i = y.i
          THEN SubSeq(a, 1, Len(a) - 1) \o <<[x EXCEPT !.n = x.n + y.n]>> \o Tail(b)
          ELSE a \o b

\* the string without its first k characters; a piece cut in two matches nothing
RECURSIVE DropFront(_, _)
DropFront(text, k) ==
  IF k <= 0 \/ text = <<>> THEN text
  ELSE LET h == Head(text) IN
       IF h.n <= k THEN DropFront(Tail(text), k - h.n)
       ELSE IF h.w = "txt" THEN <<[h EXCEPT !.n = h.n - k]>> \o Tail(text)
       ELSE <<[h EXCEPT !.w = "cut", !.n = h.n - k, !.caps = <<>>]>> \o Tail(text)

\* text.slice(-k)
SliceLast(text, k) == DropFront(text, StrLen(text) - k)

HasWord(data, words) == \E k \in 1..Len(data) : data[k].w \in words

LastWord(data) == IF data = <<>> THEN "" ELSE data[Len(data)].w

----------------------------------------------------------------------------
(* claude-detection.js, the version with CLAUDE_PATTERNS ("legacy") *)

Null == -1

\* x || 0 on a timestamp
OrZero(x) == IF x = Null THEN 0 ELSE x

SPINNER_CHARS == 0..9

THRESHOLDS == [spinnerIdleTimeout |-> 5000, idleTimeout |-> 30000, stateDebounce |-> 500]

\* SPINNER_REGEX.test(data)
SpinnerRegexTest(data) == \E k \in 1..Len(data) : data[k].w = "spin" /\ data[k].i \in SPINNER_CHARS

\* CLAUDE_PATTERNS.textPatterns
TextPatternsTest(data) == HasWord(data, {"claude code", "anthropic"})

\* CLAUDE_PATTERNS.toolNames, by data.includes
ToolNamesTest(data) == HasWord(data, {"Bash", "Running Bash tool", "Using Bash"})

containsClaudeIndicators(data) ==
  SpinnerRegexTest(data) \/ TextPatternsTest(data) \/ ToolNamesTest(data)

\* variant: the index of the glyph that comes first in the chunk
detectSpinnerPhase_FirstInChunk(data) ==
  LET at == {k \in 1..Len(data) : data[k].w = "spin" /\ data[k].i \in SPINNER_CHARS}
  IN IF at = {} THEN Null ELSE data[CHOOSE k \in at : \A h \in at : k <= h].i

\* the first index of SPINNER_CHARS found in data, or null
detectSpinnerPhase(data) ==
  LET found == {g \in SPINNER_CHARS : \E k \in 1..Len(data) : data[k].w = "spin" /\ data[k].i = g}
  IN IF found = {} THEN Null ELSE CHOOSE g \in found : \A h \in found : g <= h

\* statusPatterns / states[..].patterns
WorkingPatternsTest(data) == HasWord(data, {"Running Bash tool", "executing"})

ThinkingPatternsTest(data) == HasWord(data, {"thinking", "reasoning"})

\* /waiting for input/i, /press enter/i, /\?$/
WaitingPatternsTest(data) ==
  HasWord(data, {"waiting for input", "press enter"}) \/ LastWord(data) = "?"

\* the debounce of detectClaudeState and of detectAssistantState
\* variant: no debounce, every computed change is accepted
Debounce_Off(session, shouldUpdate, t, thresholds) == shouldUpdate

Debounce(session, shouldUpdate, t, thresholds) ==
  IF shouldUpdate /\ (t - OrZero(session.claudeLastStateChange)) < thresholds.stateDebounce
  THEN FALSE
  ELSE shouldUpdate

\* variant: the status patterns are tried before the spinner
detectClaudeState_PatternsFirst(session, data, t) ==
  IF ~session.claudeDetected
  THEN [state |-> "null", spinnerPhase |-> Null, shouldUpdate |-> FALSE]
  ELSE
    LET detectedSpinner == detectSpinnerPhase(data)
        r == IF ThinkingPatternsTest(data)
               THEN [state |-> "thinking", spinnerPhase |-> session.claudeSpinnerPhase, shouldUpdate |-> TRUE]
             ELSE IF WaitingPatternsTest(data)
               THEN [state |-> "waiting", spinnerPhase |-> session.claudeSpinnerPhase, shouldUpdate |-> TRUE]
             ELSE IF detectedSpinner # Null
               THEN [state |-> "working", spinnerPhase |-> detectedSpinner, shouldUpdate |-> TRUE]
             ELSE [state |-> session.claudeState, spinnerPhase |-> session.claudeSpinnerPhase,
                   shouldUpdate |-> FALSE]
    IN [r EXCEPT !.shouldUpdate = Debounce(session, r.shouldUpdate, t, THRESHOLDS)]

\* variant: the idle timeout is tried before the working-to-waiting timeout
detectClaudeState_IdleFirst(session, data, t) ==
  IF ~session.claudeDetected
  THEN [state |-> "null", spinnerPhase |-> Null, shouldUpdate |-> FALSE]
  ELSE
    LET previousState     == session.claudeState
        timeSinceActivity == t - OrZero(session.claudeLastActivity)
        held              == IF previousState = "null" THEN "idle" ELSE previousState
        detectedSpinner   == detectSpinnerPhase(data)
        r == IF detectedSpinner # Null
               THEN [state |-> "working", spinnerPhase |-> detectedSpinner, shouldUpdate |-> TRUE]
             ELSE IF ThinkingPatternsTest(data)
               THEN [state |-> "thinking", spinnerPhase |-> session.claudeSpinnerPhase, shouldUpdate |-> TRUE]
             ELSE IF WaitingPatternsTest(data)
               THEN [state |-> "waiting", spinnerPhase |-> session.claudeSpinnerPhase, shouldUpdate |-> TRUE]
             ELSE IF timeSinceActivity > THRESHOLDS.idleTimeout
               THEN [state |-> "idle", spinnerPhase |-> session.claudeSpinnerPhase,
                     shouldUpdate |-> previousState # "idle"]
             ELSE IF previousState = "working" /\ timeSinceActivity > THRESHOLDS.spinnerIdleTimeout
               THEN [state |-> "waiting", spinnerPhase |-> session.claudeSpinnerPhase, shouldUpdate |-> TRUE]
             ELSE [state |-> held, spinnerPhase |-> session.claudeSpinnerPhase, shouldUpdate |-> FALSE]
    IN [r EXCEPT !.shouldUpdate = Debounce(session, r.shouldUpdate, t, THRESHOLDS)]

detectClaudeState(session, data, t) ==
  IF ~session.claudeDetected
  THEN [state |-> "null", spinnerPhase |-> Null, shouldUpdate |-> FALSE]
  ELSE
    LET previousState     == session.claudeState
        timeSinceActivity == t - OrZero(session.claudeLastActivity)
        held              == IF previousState = "null" THEN "idle" ELSE previousState
        detectedSpinner   == detectSpinnerPhase(data)
        r == IF detectedSpinner # Null
               THEN [state |-> "working", spinnerPhase |-> detectedSpinner, shouldUpdate |-> TRUE]
             ELSE IF ThinkingPatternsTest(data)
               THEN [state |-> "thinking", spinnerPhase |-> session.claudeSpinnerPhase, shouldUpdate |-> TRUE]
             ELSE IF WaitingPatternsTest(data)
               THEN [state |-> "waiting", spinnerPhase |-> session.claudeSpinnerPhase, shouldUpdate |-> TRUE]
             ELSE IF previousState = "working" /\ timeSinceActivity > THRESHOLDS.spinnerIdleTimeout
               THEN [state |-> "waiting", spinnerPhase |-> session.claudeSpinnerPhase, shouldUpdate |-> TRUE]
             ELSE IF timeSinceActivity > THRESHOLDS.idleTimeout
               THEN [state |-> "idle", spinnerPhase |-> session.claudeSpinnerPhase,
                     shouldUpdate |-> previousState # "idle"]
             ELSE [state |-> held, spinnerPhase |-> session.claudeSpinnerPhase, shouldUpdate |-> FALSE]
    IN [r EXCEPT !.shouldUpdate = Debounce(session, r.shouldUpdate, t, THRESHOLDS)]

\* variant: the computed state is written even when the change is not accepted
ApplyDetection_StateAlways(session, r, data, t) ==
  LET s1 == IF r.shouldUpdate
            THEN [session EXCEPT !.claudeState = r.state,
                                 !.claudeSpinnerPhase = r.spinnerPhase,
                                 !.claudeLastStateChange = t]
            ELSE [session EXCEPT !.claudeState = r.state]
  IN IF StrLen(data) > 0 THEN [s1 EXCEPT !.claudeLastActivity = t] ELSE s1

\* the writes both versions of updateClaudeDetection make from a detection result
\* variant: the activity time is written only with an accepted state change
ApplyDetection_OnlyOnChange(session, r, data, t) ==
  IF r.shouldUpdate
  THEN [session EXCEPT !.claudeState = r.state,
                       !.claudeSpinnerPhase = r.spinnerPhase,
                       !.claudeLastStateChange = t,
                       !.claudeLastActivity = t]
  ELSE session

ApplyDetection(session, r, data, t) ==
  LET s1 == IF r.shouldUpdate
            THEN [session EXCEPT !.claudeState = r.state,
                                 !.claudeSpinnerPhase = r.spinnerPhase,
                                 !.claudeLastStateChange = t]
            ELSE session
  IN IF StrLen(data) > 0 THEN [s1 EXCEPT !.claudeLastActivity = t] ELSE s1

\* variant: the binding sets claudeDetected and leaves claudeState as it was
updateClaudeDetection_NoInitialState(session, data, t) ==
  LET s1 == IF ~session.claudeDetected /\ containsClaudeIndicators(data)
            THEN [session EXCEPT !.claudeDetected = TRUE,
                                 !.claudeLastActivity = t,
                                 !.claudeLastStateChange = t]
            ELSE session
  IN IF s1.claudeDetected
     THEN ApplyDetection(s1, detectClaudeState(s1, data, t), data, t)
     ELSE s1

\* variant: initial detection is not guarded by claudeDetected
updateClaudeDetection_Unguarded(session, data, t) ==
  LET s1 == IF containsClaudeIndicators(data)
            THEN [session EXCEPT !.claudeDetected = TRUE,
                                 !.claudeState = "idle",
                                 !.claudeSpinnerPhase = Null,
                                 !.claudeLastActivity = t,
                                 !.claudeLastStateChange = t]
            ELSE session
  IN IF s1.claudeDetected
     THEN ApplyDetection(s1, detectClaudeState(s1, data, t), data, t)
     ELSE s1

updateClaudeDetection(session, data, t) ==
  LET s1 == IF ~session.claudeDetected /\ containsClaudeIndicators(data)
            THEN [session EXCEPT !.claudeDetected = TRUE,
                                 !.claudeState = "idle",
                                 !.claudeSpinnerPhase = Null,
                                 !.claudeLastActivity = t,
                                 !.claudeLastStateChange = t]
            ELSE session
  IN IF s1.claudeDetected
     THEN ApplyDetection(s1, detectClaudeState(s1, data, t), data, t)
     ELSE s1

----------------------------------------------------------------------------
(* claude-detection.js, the version with the AI_ASSISTANTS registry *)

CLAUDE_ASSISTANT ==
  [id |-> "claude",
   states |-> <<"working", "thinking", "waiting", "idle">>,
   thresholds |-> [spinnerIdleTimeout |-> 5000, idleTimeout |-> 30000, stateDebounce |-> 500]]

AI_ASSISTANTS == <<CLAUDE_ASSISTANT>>

\* ASSISTANT_MAP[assistantId]
AssistantOf(assistantId) ==
  CHOOSE a \in {AI_ASSISTANTS[k] : k \in 1..Len(AI_ASSISTANTS)} : a.id = assistantId

\* one assistant's spinnerChars, textPatterns, uiPatterns and toolPatterns
AssistantMatches(assistant, data) ==
  \/ SpinnerRegexTest(data)
  \/ HasWord(data, {"claude code", "anthropic", "powered by claude"})
  \/ HasWord(data, {"box"})
  \/ HasWord(data, {"Using Bash", "Tool: Bash"})

detectAIAssistant(data) ==
  LET hits == {k \in 1..Len(AI_ASSISTANTS) : AssistantMatches(AI_ASSISTANTS[k], data)}
  IN IF hits = {} THEN [detected |-> FALSE, assistantId |-> "null"]
     ELSE [detected |-> TRUE,
           assistantId |-> AI_ASSISTANTS[CHOOSE k \in hits : \A h \in hits : k <= h].id]

\* states[stateName].patterns; waiting also has />\s*$/
StatePatternsTest(stateName, data) ==
  CASE stateName = "working"  -> WorkingPatternsTest(data)
    [] stateName = "thinking" -> ThinkingPatternsTest(data)
    [] stateName = "waiting"  -> WaitingPatternsTest(data) \/ LastWord(data) \in {">", "prompt>"}
    [] OTHER -> FALSE

\* the loop over Object.entries(assistant.states): the first state, idle skipped,
\* one of whose patterns matches; "null" when none does
RECURSIVE FirstStateMatch(_, _)
FirstStateMatch(states, data) ==
  IF states = <<>> THEN "null"
  ELSE IF Head(states) # "idle" /\ StatePatternsTest(Head(states), data) THEN Head(states)
  ELSE FirstStateMatch(Tail(states), data)

detectAssistantState(session, data, t) ==
  IF ~session.claudeDetected /\ session.aiAssistantId = "null"
  THEN [state |-> "null", spinnerPhase |-> Null, shouldUpdate |-> FALSE]
  ELSE
    LET assistant == AssistantOf(IF session.aiAssistantId = "null" THEN "claude"
                                 ELSE session.aiAssistantId)
        thresholds        == assistant.thresholds
        previousState     == session.claudeState
        timeSinceActivity == t - OrZero(session.claudeLastActivity)
        held              == IF previousState = "null" THEN "idle" ELSE previousState
        detectedSpinner   == detectSpinnerPhase(data)
        byPattern         == FirstStateMatch(assistant.states, data)
        r == IF detectedSpinner # Null
               THEN [state |-> "working", spinnerPhase |-> detectedSpinner, shouldUpdate |-> TRUE]
             ELSE IF byPattern # "null"
               THEN [state |-> byPattern, spinnerPhase |-> session.claudeSpinnerPhase, shouldUpdate |-> TRUE]
             ELSE IF previousState = "working" /\ timeSinceActivity > thresholds.spinnerIdleTimeout
               THEN [state |-> "waiting", spinnerPhase |-> session.claudeSpinnerPhase, shouldUpdate |-> TRUE]
             ELSE IF timeSinceActivity > thresholds.idleTimeout
               THEN [state |-> "idle", spinnerPhase |-> session.claudeSpinnerPhase,
                     shouldUpdate |-> previousState # "idle"]
             ELSE [state |-> held, spinnerPhase |-> session.claudeSpinnerPhase, shouldUpdate |-> FALSE]
    IN [r EXCEPT !.shouldUpdate = Debounce(session, r.shouldUpdate, t, thresholds)]

updateAIAssistantDetection(session, data, t) ==
  LET result == detectAIAssistant(data)
      s1 == IF ~session.claudeDetected /\ session.aiAssistantId = "null" /\ result.detected
            THEN [session EXCEPT !.aiAssistantId = result.assistantId,
                                 !.claudeDetected = (result.assistantId = "claude"),
                                 !.claudeState = "idle",
                                 !.claudeSpinnerPhase = Null,
                                 !.claudeLastActivity = t,
                                 !.claudeLastStateChange = t]
            ELSE session
  IN IF s1.claudeDetected \/ s1.aiAssistantId # "null"
     THEN ApplyDetection(s1, detectAssistantState(s1, data, t), data, t)
     ELSE s1

\* getClaudeDetection().updateClaudeDetection of the module index.js loaded
UpdateDetection(session, data, t) ==
  IF detector = "registry" THEN updateAIAssistantDetection(session, data, t)
  ELSE updateClaudeDetection(session, data, t)

----------------------------------------------------------------------------
(* index.js: configuration and session records *)

Uids == {"u1", "u2"}

\* how often the clock may be advanced
MaxAdvances == 3

\* how many chunks a session may receive between two flushes
MaxPending == 2

NoUid == "null"

\* { ...defaultConfig, ...userConfig }
pluginConfig ==
  [showGit |-> TRUE, activityTimeout |-> 1500,
   enableClaudeDetection |-> userConfig.enableClaudeDetection, claudeIdleTimeout |-> 5000]

BURST_THRESHOLD == 250

CWD_BUFFER_TIMEOUT == 150

CWD_BUFFER_LIMIT == 4096

GIT_DEBOUNCE == 500

\* activityIntensity is a double in the code; here it is kept in ten-thousandths,
\* rounded down
Scale == 100 * 100

Min(a, b) == IF a < b THEN a ELSE b

Max(a, b) == IF a > b THEN a ELSE b

\* process.platform; getCwd reads the cwd with lsof on the other platforms only
platform == "win32"

\* the record SESSION_ADD, SESSION_ADD_DATA and pollSessions create
NewSession(uid, pid, shell, title) ==
  [uid |-> uid, pid |-> pid, shell |-> shell, title |-> title, cwd |-> <<>>,
   git |-> [branch |-> "", dirty |-> 0],
   hasActivity |-> FALSE, activityTime |-> Null,
   lastOutput |-> <<>>, detectedActivity |-> "null",
   activityType |-> "idle", activityIntensity |-> 0,
   lastOutputTime |-> Null, outputBurstCount |-> 0,
   lastOutputType |-> "null", lastOutputTypeTime |-> Null,
   aiAssistantId |-> "null", claudeDetected |-> FALSE, claudeState |-> "null",
   claudeSpinnerPhase |-> Null, claudeLastActivity |-> Null,
   claudeLastStateChange |-> Null, pendingGitFetch |-> FALSE]

\* obj[key] = value
Put(obj, key, value) ==
  [k \in DOMAIN obj \cup {key} |-> IF k = key THEN value ELSE obj[k]]

\* delete obj[key]
Delete(obj, key) == [k \in DOMAIN obj \ {key} |-> obj[k]]

Empty == [k \in {} |-> 0]

\* what the host's store says of a session: state.sessions.sessions[uid]
StoreSession(uid) == [pid |-> 100, shell |-> "", title |-> ""]

----------------------------------------------------------------------------
(* index.js: getCwd and getGitInfo *)

\* history kept in every timer record, live: the timers of that kind set for the
\* session that have neither fired nor been cleared, the one the object refers
\* to included

\* variant: the timer the object refers to is not cleared before the next is set
clearTimeout_Skipped(timers, uid) ==
  IF uid \notin DOMAIN timers THEN 0 ELSE timers[uid].live

\* if (timers[uid]) clearTimeout(timers[uid]): the session's timers still to
\* fire after it; clearing a timer that has fired changes nothing
clearTimeout(timers, uid) ==
  IF uid \notin DOMAIN timers THEN 0
  ELSE IF timers[uid].pending THEN timers[uid].live - 1
  ELSE timers[uid].live

\* getGitInfo(uid, cwd, forceVisible) on the objects ss (sessions) and gd
\* (gitDebounce): the objects after the call, and whether a check was scheduled
\* history kept in a git timer: the calls of getGitInfo it stands for, that is, one
\* more than the calls whose timer it replaced while that timer was pending
TriggersMerged(gd, uid) ==
  IF uid \in DOMAIN gd /\ gd[uid].pending THEN gd[uid].triggers ELSE 0

\* variant: a pending timer is kept, the new call is dropped
getGitInfo_KeepPending(ss, gd, uid, cwd, forceVisible) ==
  IF cwd = <<>> \/ uid \notin DOMAIN ss \/ ~pluginConfig.showGit
  THEN [sessions |-> ss, gitDebounce |-> gd, scheduled |-> FALSE]
  ELSE IF uid \in DOMAIN gd /\ gd[uid].pending
  THEN [sessions |-> ss, gitDebounce |-> gd, scheduled |-> FALSE]
  ELSE [sessions |-> ss,
        gitDebounce |-> Put(gd, uid, [at |-> now + GIT_DEBOUNCE, pending |-> TRUE, cwd |-> cwd,
                                      triggers |-> 1, live |-> clearTimeout(gd, uid) + 1]),
        scheduled |-> TRUE]

\* variant: one debounce timer shared by all sessions, a new call clears it
getGitInfo_SharedTimer(ss, gd, uid, cwd, forceVisible) ==
  IF cwd = <<>> \/ uid \notin DOMAIN ss \/ ~pluginConfig.showGit
  THEN [sessions |-> ss, gitDebounce |-> gd, scheduled |-> FALSE]
  ELSE IF ~forceVisible /\ visibleSessions # {} /\ uid \notin visibleSessions
  THEN [sessions |-> [ss EXCEPT ![uid].pendingGitFetch = TRUE],
        gitDebounce |-> gd, scheduled |-> FALSE]
  ELSE [sessions |-> ss,
        gitDebounce |-> Put([v \in DOMAIN gd |-> [gd[v] EXCEPT !.pending = FALSE, !.live = 0]], uid,
                            [at |-> now + GIT_DEBOUNCE, pending |-> TRUE, cwd |-> cwd,
                             triggers |-> TriggersMerged(gd, uid) + 1,
                             live |-> clearTimeout(gd, uid) + 1]),
        scheduled |-> TRUE]

getGitInfo(ss, gd, uid, cwd, forceVisible) ==
  IF cwd = <<>> \/ uid \notin DOMAIN ss \/ ~pluginConfig.showGit
  THEN [sessions |-> ss, gitDebounce |-> gd, scheduled |-> FALSE]
  ELSE IF ~forceVisible /\ visibleSessions # {} /\ uid \notin visibleSessions
  THEN [sessions |-> [ss EXCEPT ![uid].pendingGitFetch = TRUE],
        gitDebounce |-> gd, scheduled |-> FALSE]
  ELSE [sessions |-> ss,
        gitDebounce |-> Put(gd, uid, [at |-> now + GIT_DEBOUNCE, pending |-> TRUE, cwd |-> cwd,
                                      triggers |-> TriggersMerged(gd, uid) + 1,
                             live |-> clearTimeout(gd, uid) + 1]),
        scheduled |-> TRUE]

----------------------------------------------------------------------------
(* index.js: parseTerminalOutput *)

\* variant: the success patterns are tried first
detectOutputType_SuccessFirst(data) ==
  IF HasWord(data, {"done", "ESC[32m"}) THEN "success"
  ELSE IF HasWord(data, {"Error", "ESC[31m"}) THEN "error"
  ELSE IF HasWord(data, {"WARN", "ESC[33m"}) THEN "warning"
  ELSE IF HasWord(data, {"50%", "..."}) THEN "progress"
  ELSE "null"

\* detectOutputType: the first of error, warning, success, progress with a match
detectOutputType(data) ==
  IF HasWord(data, {"Error", "ESC[31m"}) THEN "error"
  ELSE IF HasWord(data, {"WARN", "ESC[33m"}) THEN "warning"
  ELSE IF HasWord(data, {"done", "ESC[32m"}) THEN "success"
  ELSE IF HasWord(data, {"50%", "..."}) THEN "progress"
  ELSE "null"

\* the output-type stamp
StampOutputType(session, data, t) ==
  LET outputType == IF StrLen(data) > 5 THEN detectOutputType(data) ELSE "null"
  IN IF outputType # "null"
     THEN [session EXCEPT !.lastOutputType = outputType, !.lastOutputTypeTime = t]
     ELSE session

\* markActivity(uid)
markActivity(session, uid, t) ==
  IF uid = activeUid THEN session
  ELSE [session EXCEPT !.hasActivity = TRUE, !.activityTime = t]

\* the activity detection block
\* variant: the burst counter is not capped
TrackActivity_NoCap(session, uid, data, t) ==
  LET fresh == session.lastOutputTime = Null \/ session.lastOutputTime = 0
      timeSinceLastOutput == t - OrZero(session.lastOutputTime)
  IN IF StrLen(data) > 5
     THEN LET s1 ==
                IF ~fresh /\ timeSinceLastOutput < BURST_THRESHOLD
                THEN LET burst == session.outputBurstCount + 1
                     IN [session EXCEPT !.outputBurstCount = burst,
                                        !.activityType = "command",
                                        !.activityIntensity = Min(burst * 4, 100) * Scale]
                ELSE IF ~fresh /\ timeSinceLastOutput < 1000
                THEN [session EXCEPT
                        !.outputBurstCount = Max(session.outputBurstCount - 1, 0),
                        !.activityType = "output",
                        !.activityIntensity = Min(50 * Scale, session.activityIntensity + 10 * Scale)]
                ELSE [session EXCEPT !.outputBurstCount = 1,
                                     !.activityType = "output",
                                     !.activityIntensity = 35 * Scale]
              s2 == [s1 EXCEPT !.lastOutputTime = t]
          IN IF uid # activeUid THEN markActivity(s2, uid, t) ELSE s2
     ELSE IF StrLen(data) > 0
     THEN [session EXCEPT
             !.activityType = "typing",
             !.activityIntensity = Max(10 * Scale, (session.activityIntensity * 95) \div 100)]
     ELSE session

\* variant: the intensity is computed from the burst count before the increment
TrackActivity_StaleCount(session, uid, data, t) ==
  LET fresh == session.lastOutputTime = Null \/ session.lastOutputTime = 0
      timeSinceLastOutput == t - OrZero(session.lastOutputTime)
  IN IF StrLen(data) > 5
     THEN LET s1 ==
                IF ~fresh /\ timeSinceLastOutput < BURST_THRESHOLD
                THEN LET burst == Min(session.outputBurstCount + 1, 100)
                     IN [session EXCEPT !.outputBurstCount = burst,
                                        !.activityType = "command",
                                        !.activityIntensity = Min(session.outputBurstCount * 4, 100) * Scale]
                ELSE IF ~fresh /\ timeSinceLastOutput < 1000
                THEN [session EXCEPT
                        !.outputBurstCount = Max(session.outputBurstCount - 1, 0),
                        !.activityType = "output",
                        !.activityIntensity = Min(50 * Scale, session.activityIntensity + 10 * Scale)]
                ELSE [session EXCEPT !.outputBurstCount = 1,
                                     !.activityType = "output",
                                     !.activityIntensity = 35 * Scale]
              s2 == [s1 EXCEPT !.lastOutputTime = t]
          IN IF uid # activeUid THEN markActivity(s2, uid, t) ELSE s2
     ELSE IF StrLen(data) > 0
     THEN [session EXCEPT
             !.activityType = "typing",
             !.activityIntensity = Max(10 * Scale, (session.activityIntensity * 95) \div 100)]
     ELSE session

\* variant: a key stroke decays the intensity without the floor of 10
TrackActivity_NoFloor(session, uid, data, t) ==
  LET fresh == session.lastOutputTime = Null \/ session.lastOutputTime = 0
      timeSinceLastOutput == t - OrZero(session.lastOutputTime)
  IN IF StrLen(data) > 5
     THEN LET s1 ==
                IF ~fresh /\ timeSinceLastOutput < BURST_THRESHOLD
                THEN LET burst == Min(session.outputBurstCount + 1, 100)
                     IN [session EXCEPT !.outputBurstCount = burst,
                                        !.activityType = "command",
                                        !.activityIntensity = Min(burst * 4, 100) * Scale]
                ELSE IF ~fresh /\ timeSinceLastOutput < 1000
                THEN [session EXCEPT
                        !.outputBurstCount = Max(session.outputBurstCount - 1, 0),
                        !.activityType = "output",
                        !.activityIntensity = Min(50 * Scale, session.activityIntensity + 10 * Scale)]
                ELSE [session EXCEPT !.outputBurstCount = 1,
                                     !.activityType = "output",
                                     !.activityIntensity = 35 * Scale]
              s2 == [s1 EXCEPT !.lastOutputTime = t]
          IN IF uid # activeUid THEN markActivity(s2, uid, t) ELSE s2
     ELSE IF StrLen(data) > 0
     THEN [session EXCEPT
             !.activityType = "typing",
             !.activityIntensity = (session.activityIntensity * 95) \div 100]
     ELSE session

TrackActivity(session, uid, data, t) ==
  LET fresh == session.lastOutputTime = Null \/ session.lastOutputTime = 0
      timeSinceLastOutput == t - OrZero(session.lastOutputTime)
  IN IF StrLen(data) > 5
     THEN LET s1 ==
                IF ~fresh /\ timeSinceLastOutput < BURST_THRESHOLD
                THEN LET burst == Min(session.outputBurstCount + 1, 100)
                     IN [session EXCEPT !.outputBurstCount = burst,
                                        !.activityType = "command",
                                        !.activityIntensity = Min(burst * 4, 100) * Scale]
                ELSE IF ~fresh /\ timeSinceLastOutput < 1000
                THEN [session EXCEPT
                        !.outputBurstCount = Max(session.outputBurstCount - 1, 0),
                        !.activityType = "output",
                        !.activityIntensity = Min(50 * Scale, session.activityIntensity + 10 * Scale)]
                ELSE [session EXCEPT !.outputBurstCount = 1,
                                     !.activityType = "output",
                                     !.activityIntensity = 35 * Scale]
              s2 == [s1 EXCEPT !.lastOutputTime = t]
          IN IF uid # activeUid THEN markActivity(s2, uid, t) ELSE s2
     ELSE IF StrLen(data) > 0
     THEN [session EXCEPT
             !.activityType = "typing",
             !.activityIntensity = Max(10 * Scale, (session.activityIntensity * 95) \div 100)]
     ELSE session

\* variant: the buffer is never trimmed
AppendToBuffer_Uncapped(buffer, data) == Concat(buffer, data)

\* the buffer after appending one chunk and trimming to the last 4 KB
AppendToBuffer(buffer, data) ==
  LET joined == Concat(buffer, data)
  IN IF StrLen(joined) > CWD_BUFFER_LIMIT THEN SliceLast(joined, CWD_BUFFER_LIMIT)
     ELSE joined

\* cwdBuffers[uid] || ''
BufferOf(uid) == IF uid \in DOMAIN cwdBuffers THEN cwdBuffers[uid] ELSE <<>>

\* the inline detection that follows updateClaudeDetection
LegacyPattern(session, data, t) ==
  IF ~session.claudeDetected /\ HasWord(data, {"claude code", "anthropic"})
  THEN [session EXCEPT !.detectedActivity = "claude-code",
                       !.claudeDetected = TRUE,
                       !.claudeState = "idle",
                       !.claudeLastActivity = t]
  ELSE session

\* variant: the detection block is entered whatever the configuration says
DetectClaude_Always(session, data, t) ==
  LegacyPattern(UpdateDetection(session, data, t), data, t)

\* variant: the detection block is entered for chunks of more than 5 characters only
DetectClaude_LongOnly(session, data, t) ==
  IF pluginConfig.enableClaudeDetection /\ StrLen(data) > 5
  THEN LegacyPattern(UpdateDetection(session, data, t), data, t)
  ELSE session

\* the Claude Code detection block
DetectClaude(session, data, t) ==
  IF pluginConfig.enableClaudeDetection
  THEN LegacyPattern(UpdateDetection(session, data, t), data, t)
  ELSE session

\* the session record after parseTerminalOutput(uid, data)
ParsedSession(session, uid, data) ==
  LET s1 == [session EXCEPT !.lastOutput = data]
      s2 == StampOutputType(s1, data, now)
      s3 == TrackActivity(s2, uid, data, now)
  IN DetectClaude(s3, data, now)

\* the flush timer parseTerminalOutput sets at time t, n - 1 timers of the
\* session being left to fire by the clearTimeout before it
FlushTimer(t, n) == [at |-> t + CWD_BUFFER_TIMEOUT, pending |-> TRUE, live |-> n]

\* parseTerminalOutput(uid, data), sessions being ss when it is called
parseTerminalOutput(ss, uid, data) ==
  IF uid \notin DOMAIN ss
  THEN /\ sessions' = ss
       /\ UNCHANGED <<cwdBuffers, cwdBufferTimeouts, received>>
  ELSE /\ sessions' = [ss EXCEPT ![uid] = ParsedSession(ss[uid], uid, data)]
       /\ cwdBuffers' = Put(cwdBuffers, uid, AppendToBuffer(BufferOf(uid), data))
       /\ cwdBufferTimeouts' = Put(cwdBufferTimeouts, uid,
                                   FlushTimer(now, clearTimeout(cwdBufferTimeouts, uid) + 1))
       /\ received' = Put(received, uid,
                          (IF uid \in DOMAIN received THEN received[uid] ELSE <<>>) \o <<data>>)

\* variant: the resolved path is not compared with the session's cwd
processCwdBuffer_NoCompare(uid) ==
  IF uid \notin DOMAIN sessions \/ BufferOf(uid) = <<>>
  THEN [sessions |-> sessions, cwdBuffers |-> cwdBuffers, gitDebounce |-> gitDebounce,
        ran |-> FALSE, git |-> FALSE]
  ELSE LET result  == ExtractCwd(cwdBuffers[uid])
           emptied == [cwdBuffers EXCEPT ![uid] = <<>>]
       IN IF result # NoResult /\ result.path # <<>>
          THEN LET ss == [sessions EXCEPT ![uid].cwd = result.path]
                   g  == getGitInfo(ss, gitDebounce, uid, result.path, FALSE)
               IN [sessions |-> g.sessions, cwdBuffers |-> emptied,
                   gitDebounce |-> g.gitDebounce, ran |-> TRUE, git |-> TRUE]
          ELSE [sessions |-> sessions, cwdBuffers |-> emptied,
                gitDebounce |-> gitDebounce, ran |-> TRUE, git |-> FALSE]

\* processCwdBuffer(uid): the sessions, buffers and git timers after the call
\* (ran: whether the buffer was taken and cleared)
processCwdBuffer(uid) ==
  IF uid \notin DOMAIN sessions \/ BufferOf(uid) = <<>>
  THEN [sessions |-> sessions, cwdBuffers |-> cwdBuffers, gitDebounce |-> gitDebounce,
        ran |-> FALSE, git |-> FALSE]
  ELSE LET bufferedData == cwdBuffers[uid]
           result  == ExtractCwd(bufferedData)
           emptied == [cwdBuffers EXCEPT ![uid] = <<>>]
       IN IF result # NoResult /\ result.path # <<>> /\ result.path # sessions[uid].cwd
          THEN LET ss == [sessions EXCEPT ![uid].cwd = result.path]
                   g  == getGitInfo(ss, gitDebounce, uid, result.path, FALSE)
               IN [sessions |-> g.sessions, cwdBuffers |-> emptied,
                   gitDebounce |-> g.gitDebounce, ran |-> TRUE, git |-> TRUE]
          ELSE [sessions |-> sessions, cwdBuffers |-> emptied,
                gitDebounce |-> gitDebounce, ran |-> TRUE, git |-> FALSE]

----------------------------------------------------------------------------
(* index.js: clearOldActivity *)

\* variant: the timeout is measured from the last state change
DecaySession_SinceChange(session, t) ==
  LET s1 == IF session.hasActivity /\ session.activityTime # Null /\ session.activityTime # 0
               /\ t - session.activityTime > pluginConfig.activityTimeout
            THEN [session EXCEPT !.hasActivity = FALSE] ELSE session
      s2 == IF s1.lastOutputType # "null" /\ s1.lastOutputTypeTime # Null
               /\ s1.lastOutputTypeTime # 0 /\ t - s1.lastOutputTypeTime > 3000
            THEN [s1 EXCEPT !.lastOutputType = "null"] ELSE s1
      silent == s2.lastOutputTime = Null \/ s2.lastOutputTime = 0
                  \/ t - s2.lastOutputTime > 1500
      s3 == IF silent
            THEN LET decayed == Max(0, (s2.activityIntensity * 85) \div 100)
                     burst   == Max(0, (s2.outputBurstCount * 8) \div 10)
                 IN IF decayed < 3 * Scale
                    THEN [s2 EXCEPT !.activityIntensity = 0, !.outputBurstCount = burst,
                                    !.activityType = "idle"]
                    ELSE [s2 EXCEPT !.activityIntensity = decayed, !.outputBurstCount = burst]
            ELSE s2
      claudeIdleTimeout == IF pluginConfig.claudeIdleTimeout = 0 THEN 5000
                           ELSE pluginConfig.claudeIdleTimeout
      overdue == s3.claudeLastStateChange = Null \/ s3.claudeLastStateChange = 0
                   \/ t - s3.claudeLastStateChange > claudeIdleTimeout
  IN IF s3.claudeDetected /\ s3.claudeState = "working" /\ overdue
     THEN [s3 EXCEPT !.claudeState = "waiting", !.claudeLastStateChange = t]
     ELSE s3

\* the body of the forEach of clearOldActivity, for one session
\* variant: no snap to zero below 3
DecaySession_NoSnap(session, t) ==
  LET s1 == IF session.hasActivity /\ session.activityTime # Null /\ session.activityTime # 0
               /\ t - session.activityTime > pluginConfig.activityTimeout
            THEN [session EXCEPT !.hasActivity = FALSE] ELSE session
      s2 == IF s1.lastOutputType # "null" /\ s1.lastOutputTypeTime # Null
               /\ s1.lastOutputTypeTime # 0 /\ t - s1.lastOutputTypeTime > 3000
            THEN [s1 EXCEPT !.lastOutputType = "null"] ELSE s1
      silent == s2.lastOutputTime = Null \/ s2.lastOutputTime = 0
                  \/ t - s2.lastOutputTime > 1500
      s3 == IF silent
            THEN LET decayed == Max(0, (s2.activityIntensity * 85) \div 100)
                     burst   == Max(0, (s2.outputBurstCount * 8) \div 10)
                 IN [s2 EXCEPT !.activityIntensity = decayed, !.outputBurstCount = burst]
            ELSE s2
      claudeIdleTimeout == IF pluginConfig.claudeIdleTimeout = 0 THEN 5000
                           ELSE pluginConfig.claudeIdleTimeout
      overdue == s3.claudeLastActivity = Null \/ s3.claudeLastActivity = 0
                   \/ t - s3.claudeLastActivity > claudeIdleTimeout
  IN IF s3.claudeDetected /\ s3.claudeState = "working" /\ overdue
     THEN [s3 EXCEPT !.claudeState = "waiting", !.claudeLastStateChange = t]
     ELSE s3

DecaySession(session, t) ==
  LET s1 == IF session.hasActivity /\ session.activityTime # Null /\ session.activityTime # 0
               /\ t - session.activityTime > pluginConfig.activityTimeout
            THEN [session EXCEPT !.hasActivity = FALSE] ELSE session
      s2 == IF s1.lastOutputType # "null" /\ s1.lastOutputTypeTime # Null
               /\ s1.lastOutputTypeTime # 0 /\ t - s1.lastOutputTypeTime > 3000
            THEN [s1 EXCEPT !.lastOutputType = "null"] ELSE s1
      silent == s2.lastOutputTime = Null \/ s2.lastOutputTime = 0
                  \/ t - s2.lastOutputTime > 1500
      s3 == IF silent
            THEN LET decayed == Max(0, (s2.activityIntensity * 85) \div 100)
                     burst   == Max(0, (s2.outputBurstCount * 8) \div 10)
                 IN IF decayed < 3 * Scale
                    THEN [s2 EXCEPT !.activityIntensity = 0, !.outputBurstCount = burst,
                                    !.activityType = "idle"]
                    ELSE [s2 EXCEPT !.activityIntensity = decayed, !.outputBurstCount = burst]
            ELSE s2
      claudeIdleTimeout == IF pluginConfig.claudeIdleTimeout = 0 THEN 5000
                           ELSE pluginConfig.claudeIdleTimeout
      overdue == s3.claudeLastActivity = Null \/ s3.claudeLastActivity = 0
                   \/ t - s3.claudeLastActivity > claudeIdleTimeout
  IN IF s3.claudeDetected /\ s3.claudeState = "working" /\ overdue
     THEN [s3 EXCEPT !.claudeState = "waiting", !.claudeLastStateChange = t]
     ELSE s3

clearOldActivity(ss, t) == [uid \in DOMAIN ss |-> DecaySession(ss[uid], t)]

----------------------------------------------------------------------------
(* The host (Hyper), the clock and the timers *)

StartTime == 1000 * 1000

\* a setTimeout whose time has come and which was not cleared
Expired(timers, uid) ==
  uid \in DOMAIN timers /\ timers[uid].pending /\ timers[uid].at <= now

\* the clock moves on by d ms; callbacks that are due run first
AdvanceTime(d) ==
  /\ advances < MaxAdvances
  /\ \A uid \in Uids : ~Expired(cwdBufferTimeouts, uid) /\ ~Expired(gitDebounce, uid)
  /\ now' = now + d
  /\ advances' = advances + 1
  /\ polled' = FALSE
  /\ UNCHANGED <<detector, userConfig, store, sessions, activeUid, cwdBuffers, cwdBufferTimeouts,
                 gitDebounce, visibleSessions, gitExec, received, xin, xout, cleared>>

\* case 'SESSION_ADD', and the host's reducer: a new session, which becomes active
SessionAdd(uid) ==
  /\ store.life[uid] = "fresh"
  /\ sessions' = Put(sessions, uid,
                     NewSession(uid, StoreSession(uid).pid, StoreSession(uid).shell, ""))
  /\ store' = [store EXCEPT !.sessions = Put(store.sessions, uid, StoreSession(uid)),
                            !.activeUid = uid,
                            !.life[uid] = "live"]
  /\ UNCHANGED <<now, advances, detector, userConfig, activeUid, cwdBuffers, cwdBufferTimeouts,
                 gitDebounce, visibleSessions, gitExec, polled, received, xin, xout, cleared>>

\* case 'SESSION_SET_XTERM_TITLE', and the host's reducer
SessionSetXtermTitle(uid, title) ==
  /\ uid \in DOMAIN store.sessions
  /\ sessions' = IF uid \in DOMAIN sessions
                 THEN [sessions EXCEPT ![uid].title = title] ELSE sessions
  /\ store' = [store EXCEPT !.sessions[uid].title = title]
  /\ UNCHANGED <<now, advances, detector, userConfig, activeUid, cwdBuffers, cwdBufferTimeouts,
                 gitDebounce, visibleSessions, gitExec, polled, received, xin, xout, cleared>>

\* case 'SESSION_ADD_DATA': the chunk goes to the store's active session
SessionAddData(data) ==
  LET cur == store.activeUid
      ss  == IF cur # NoUid /\ cur \notin DOMAIN sessions /\ cur \in DOMAIN store.sessions
             THEN Put(sessions, cur,
                      NewSession(cur, store.sessions[cur].pid, store.sessions[cur].shell,
                                 store.sessions[cur].title))
             ELSE sessions
  IN /\ cur \in DOMAIN received => Len(received[cur]) < MaxPending
     /\ IF cur # NoUid /\ data # <<>> /\ cur \in DOMAIN ss
        THEN parseTerminalOutput(ss, cur, data)
        ELSE /\ sessions' = ss
             /\ UNCHANGED <<cwdBuffers, cwdBufferTimeouts, received>>
     /\ UNCHANGED <<now, advances, detector, userConfig, store, activeUid, gitDebounce,
                    visibleSessions, gitExec, polled, xin, xout, cleared>>

\* case 'SESSION_SET_ACTIVE', and the host's reducer
SessionSetActive(uid) ==
  /\ uid \in DOMAIN store.sessions
  /\ activeUid' = uid
  /\ sessions' = IF uid \in DOMAIN sessions
                 THEN [sessions EXCEPT ![uid].hasActivity = FALSE] ELSE sessions
  /\ store' = [store EXCEPT !.activeUid = uid]
  /\ UNCHANGED <<now, advances, detector, userConfig, cwdBuffers, cwdBufferTimeouts,
                 gitDebounce, visibleSessions, gitExec, polled, received, xin, xout, cleared>>

\* the host closes a session without a pty exit having reached the middleware yet
\* (SESSION_USER_EXIT: the reducer drops the session, the middleware has no case)
SessionUserExit(uid) ==
  /\ store.life[uid] = "live"
  /\ store' = [store EXCEPT !.sessions = Delete(store.sessions, uid),
                            !.life[uid] = "closing"]
  /\ UNCHANGED <<now, advances, detector, userConfig, sessions, activeUid, cwdBuffers,
                 cwdBufferTimeouts, gitDebounce, visibleSessions, gitExec, polled,
                 received, xin, xout, cleared>>

\* the timers SESSION_PTY_EXIT finds pending and clears
ClearedOnExit(uid) ==
  (IF uid \in DOMAIN gitDebounce /\ gitDebounce[uid].pending
   THEN {<<uid, "gitDebounce">>} ELSE {})
  \cup
  (IF uid \in DOMAIN cwdBufferTimeouts /\ cwdBufferTimeouts[uid].pending
   THEN {<<uid, "cwdBufferTimeouts">>} ELSE {})

\* variant: the flush timer is neither cleared nor deleted
SessionPtyExit_KeepFlushTimer(uid) ==
  /\ store.life[uid] \in {"live", "closing"}
  /\ gitDebounce' = Delete(gitDebounce, uid)
  /\ cwdBuffers' = Delete(cwdBuffers, uid)
  /\ sessions' = Delete(sessions, uid)
  /\ received' = Delete(received, uid)
  /\ store' = [store EXCEPT !.sessions = Delete(store.sessions, uid),
                            !.life[uid] = "gone"]
  /\ cleared' = cleared \cup ClearedOnExit(uid)
  /\ UNCHANGED <<now, advances, detector, userConfig, activeUid, visibleSessions, gitExec, polled,
                 xin, xout, cwdBufferTimeouts>>

\* case 'SESSION_PTY_EXIT', and the host's reducer
SessionPtyExit(uid) ==
  /\ store.life[uid] \in {"live", "closing"}
  /\ gitDebounce' = Delete(gitDebounce, uid)
  /\ cwdBufferTimeouts' = Delete(cwdBufferTimeouts, uid)
  /\ cwdBuffers' = Delete(cwdBuffers, uid)
  /\ sessions' = Delete(sessions, uid)
  /\ received' = Delete(received, uid)
  /\ store' = [store EXCEPT !.sessions = Delete(store.sessions, uid),
                            !.life[uid] = "gone"]
  /\ cleared' = cleared \cup ClearedOnExit(uid)
  /\ UNCHANGED <<now, advances, detector, userConfig, activeUid, visibleSessions, gitExec, polled,
                 xin, xout>>

\* variant: every record is made anew from the store
SyncWithStore_Reset(ss) ==
  [uid \in DOMAIN store.sessions |->
     NewSession(uid, store.sessions[uid].pid, store.sessions[uid].shell,
                store.sessions[uid].title)]

\* the sync of pollSessions: one record per session of the store
SyncWithStore(ss) ==
  [uid \in DOMAIN store.sessions |->
     IF uid \in DOMAIN ss
     THEN [ss[uid] EXCEPT !.title = IF store.sessions[uid].title # ""
                                    THEN store.sessions[uid].title ELSE @,
                          !.pid = store.sessions[uid].pid]
     ELSE NewSession(uid, store.sessions[uid].pid, store.sessions[uid].shell,
                     store.sessions[uid].title)]

\* pollSessions, on its setInterval
PollSessions ==
  /\ ~polled
  /\ polled' = TRUE
  /\ activeUid' = store.activeUid
  /\ sessions' = clearOldActivity(SyncWithStore(sessions), now)
  /\ UNCHANGED <<now, advances, detector, userConfig, store, cwdBuffers, cwdBufferTimeouts,
                 gitDebounce, visibleSessions, gitExec, received, xin, xout, cleared>>

\* the callback of the flush timer: processCwdBuffer(uid)
CwdBufferTimeout(uid) ==
  /\ Expired(cwdBufferTimeouts, uid)
  /\ LET r == processCwdBuffer(uid)
     IN /\ sessions' = r.sessions
        /\ cwdBuffers' = r.cwdBuffers
        /\ gitDebounce' = r.gitDebounce
        /\ received' = IF r.ran THEN [received EXCEPT ![uid] = <<>>] ELSE received
  /\ cwdBufferTimeouts' = [cwdBufferTimeouts EXCEPT ![uid].pending = FALSE,
                                                    ![uid].live = @ - 1]
  /\ UNCHANGED <<now, advances, detector, userConfig, store, activeUid, visibleSessions, gitExec,
                 polled, xin, xout, cleared>>

\* the callback of the git debounce timer: it starts git rev-parse in cwd
GitDebounceTimeout(uid) ==
  /\ Expired(gitDebounce, uid)
  /\ gitDebounce' = [gitDebounce EXCEPT ![uid].pending = FALSE, ![uid].live = @ - 1]
  /\ gitExec' = gitExec \cup {[uid |-> uid, cwd |-> gitDebounce[uid].cwd, cmd |-> "rev-parse"]}
  /\ UNCHANGED <<now, advances, detector, userConfig, store, sessions, activeUid, cwdBuffers,
                 cwdBufferTimeouts, visibleSessions, polled, received, xin, xout, cleared>>

\* the callback of git rev-parse: on an error the neutral git info, else the
\* branch and the status commands start
GitRevParseDone(q, err) ==
  /\ q \in gitExec /\ q.cmd = "rev-parse"
  /\ IF err
     THEN /\ sessions' = IF q.uid \in DOMAIN sessions
                         THEN [sessions EXCEPT ![q.uid].git = [branch |-> "", dirty |-> 0]]
                         ELSE sessions
          /\ gitExec' = gitExec \ {q}
     ELSE /\ sessions' = sessions
          /\ gitExec' = (gitExec \ {q}) \cup {[q EXCEPT !.cmd = "branch"],
                                              [q EXCEPT !.cmd = "status"]}
  /\ UNCHANGED <<now, advances, detector, userConfig, store, activeUid, cwdBuffers, cwdBufferTimeouts,
                 gitDebounce, visibleSessions, polled, received, xin, xout, cleared>>

\* the callback of git symbolic-ref
GitBranchDone(q, err, stdout) ==
  /\ q \in gitExec /\ q.cmd = "branch"
  /\ sessions' = IF ~err /\ q.uid \in DOMAIN sessions
                 THEN [sessions EXCEPT ![q.uid].git.branch = stdout] ELSE sessions
  /\ gitExec' = gitExec \ {q}
  /\ UNCHANGED <<now, advances, detector, userConfig, store, activeUid, cwdBuffers, cwdBufferTimeouts,
                 gitDebounce, visibleSessions, polled, received, xin, xout, cleared>>

\* variant: the result is written without looking for the record first
GitStatusDone_Unguarded(q, err, lines) ==
  /\ q \in gitExec /\ q.cmd = "status"
  /\ sessions' = IF ~err
                 THEN Put(sessions, q.uid,
                          [(IF q.uid \in DOMAIN sessions THEN sessions[q.uid]
                            ELSE NewSession(q.uid, 0, "", ""))
                             EXCEPT !.git.dirty = lines])
                 ELSE sessions
  /\ gitExec' = gitExec \ {q}
  /\ UNCHANGED <<now, advances, detector, userConfig, store, activeUid, cwdBuffers, cwdBufferTimeouts,
                 gitDebounce, visibleSessions, polled, received, xin, xout, cleared>>

\* the callback of git status --porcelain: lines is the number of lines of stdout
GitStatusDone(q, err, lines) ==
  /\ q \in gitExec /\ q.cmd = "status"
  /\ sessions' = IF ~err /\ q.uid \in DOMAIN sessions
                 THEN [sessions EXCEPT ![q.uid].git.dirty = lines] ELSE sessions
  /\ gitExec' = gitExec \ {q}
  /\ UNCHANGED <<now, advances, detector, userConfig, store, activeUid, cwdBuffers, cwdBufferTimeouts,
                 gitDebounce, visibleSessions, polled, received, xin, xout, cleared>>

\* the IntersectionObserver callback, for an entry with isIntersecting: the
\* card of the session has come into view
CardVisible(uid) ==
  /\ uid \in DOMAIN sessions
  /\ visibleSessions' = visibleSessions \cup {uid}
  /\ LET session == sessions[uid] IN
     IF session.cwd # <<>> /\ (session.git.branch = "" \/ session.pendingGitFetch)
     THEN LET g == getGitInfo([sessions EXCEPT ![uid].pendingGitFetch = FALSE],
                              gitDebounce, uid, session.cwd, TRUE)
          IN /\ sessions' = g.sessions
             /\ gitDebounce' = g.gitDebounce
     ELSE UNCHANGED <<sessions, gitDebounce>>
  /\ UNCHANGED <<now, advances, detector, userConfig, store, activeUid, cwdBuffers, cwdBufferTimeouts,
                 gitExec, polled, received, xin, xout, cleared>>

\* the IntersectionObserver callback, for an entry without isIntersecting
CardHidden(uid) ==
  /\ uid \in visibleSessions
  /\ visibleSessions' = visibleSessions \ {uid}
  /\ UNCHANGED <<now, advances, detector, userConfig, store, sessions, activeUid, cwdBuffers,
                 cwdBufferTimeouts, gitDebounce, gitExec, polled, received, xin, xout,
                 cleared>>

\* exports.onUnload: every timer is cleared, every map emptied.  The git commands
\* in flight stay with the unloaded module instance, whose sessions map is empty:
\* their callbacks find no record and do nothing, so they are dropped here.  What
\* runs afterwards is the reloaded module, which starts from these empty maps.
OnUnload ==
  /\ gitDebounce' = Empty
  /\ cwdBufferTimeouts' = Empty
  /\ cwdBuffers' = Empty
  /\ sessions' = Empty
  /\ activeUid' = NoUid
  /\ gitExec' = {}
  /\ received' = Empty
  /\ UNCHANGED <<now, advances, detector, userConfig, store, visibleSessions, polled, xin, xout,
                 cleared>>

----------------------------------------------------------------------------
(* Specifications *)

\* the state when the plugin has been loaded into a host without sessions
InitState ==
  /\ now = StartTime
  /\ advances = 0
  /\ detector \in {"legacy", "registry"}
  /\ userConfig = [enableClaudeDetection |-> TRUE]
  /\ store = [sessions |-> Empty, activeUid |-> NoUid, life |-> [u \in Uids |-> "fresh"]]
  /\ sessions = Empty
  /\ activeUid = NoUid
  /\ cwdBuffers = Empty
  /\ cwdBufferTimeouts = Empty
  /\ gitDebounce = Empty
  /\ visibleSessions = {}
  /\ gitExec = {}
  /\ polled = FALSE
  /\ received = Empty
  /\ xin = <<>>
  /\ xout = <<>>
  /\ cleared = {}

(* Assistant detection: one session, chunks that differ in what the assistant
   patterns see in them, clock steps below stateDebounce and above idleTimeout. *)

ChSpinnerThinking == <<Spin(3), Spin(1), Txt(1, 1), Tok("thinking", 8), Tok("?", 1)>>

\* "Claude Code is thinking": an indicator text and a thinking pattern
ChThinking == <<Tok("claude code", 11), Txt(1, 4), Tok("thinking", 8)>>

ChQuestion == <<Txt(1, 12), Tok("?", 1)>>

ChPlain == <<Txt(1, 20)>>

AssistChunks == {ChSpinnerThinking, ChThinking, ChQuestion, ChPlain}

AssistSteps == {400, 30001}

NextAssist ==
  \/ SessionAdd("u1")
  \/ \E data \in AssistChunks : SessionAddData(data)
  \/ \E d \in AssistSteps : AdvanceTime(d)
  \/ PollSessions
  \/ CwdBufferTimeout("u1")
  \/ SessionSetXtermTitle("u1", "claude")
  \/ SessionPtyExit("u1")

SpecAssist == InitState /\ [][NextAssist]_vars

----------------------------------------------------------------------------
(* Assistant detection: C1 - C4 *)

\* the session is bound to an assistant
IsBound(session) == session.claudeDetected \/ session.aiAssistantId # "null"

\* the store's active session has a record and it is bound: the next chunk is
\* parsed for a bound session
ActiveIsBound ==
  store.activeUid \in DOMAIN sessions /\ IsBound(sessions[store.activeUid])

\* ms since the last accepted state change of the active session
SinceStateChange == now - OrZero(sessions[store.activeUid].claudeLastStateChange)

\* C1 as stated: for a bound session, a chunk with a spinner glyph always
\* leaves assistantState = working
C1_SpinnerAlwaysWorking ==
  [][\A data \in AssistChunks :
       (ActiveIsBound /\ SpinnerRegexTest(data) /\ SessionAddData(data))
         => sessions'[store.activeUid].claudeState = "working"]_vars

\* C1 amended: for a bound session, a chunk with a spinner glyph leaves
\* assistantState = working and spinnerPhase = the first glyph index, whatever
\* state pattern the chunk also matches, when at least stateDebounce has passed
\* since the last accepted state change; within stateDebounce the chunk changes
\* neither of them
C1_SpinnerWorkingUnlessDebounced ==
  [][\A data \in AssistChunks :
       (ActiveIsBound /\ SpinnerRegexTest(data) /\ SessionAddData(data))
         => LET before == sessions[store.activeUid]
                after  == sessions'[store.activeUid]
            IN IF SinceStateChange >= THRESHOLDS.stateDebounce
               THEN /\ after.claudeState = "working"
                    /\ after.claudeSpinnerPhase = detectSpinnerPhase(data)
                    /\ after.claudeLastStateChange = now
               ELSE /\ after.claudeState = before.claudeState
                    /\ after.claudeSpinnerPhase = before.claudeSpinnerPhase]_vars

\* a spinner chunk that also matches thinking and waiting patterns was accepted
\* for a session that was bound before
C1_Witness ==
  \E uid \in DOMAIN sessions :
    /\ sessions[uid].lastOutput = ChSpinnerThinking
    /\ sessions[uid].claudeState = "working"
    /\ sessions[uid].claudeSpinnerPhase = 1
    /\ sessions[uid].claudeLastStateChange = now

C3_TickDrivesIdle ==
  \A uid \in DOMAIN sessions :
    (/\ IsBound(sessions[uid])
     /\ polled
     /\ now - OrZero(sessions[uid].claudeLastActivity) > THRESHOLDS.idleTimeout)
      => sessions[uid].claudeState = "idle"

\* C4: a bound session's binding (aiAssistantId, claudeDetected) is the same
\* after every step that keeps its record, and the binding's initialisation is
\* not repeated: its state goes back to idle only by the idle timeout, and a
\* spinnerPhase it has is never reset to null
C4_BoundOnce ==
  [][\A uid \in DOMAIN sessions :
       (IsBound(sessions[uid]) /\ uid \in DOMAIN sessions')
         => /\ sessions'[uid].aiAssistantId = sessions[uid].aiAssistantId
            /\ sessions'[uid].claudeDetected = sessions[uid].claudeDetected
            /\ (sessions[uid].claudeState # "idle" /\ sessions'[uid].claudeState = "idle"
                  => now - OrZero(sessions[uid].claudeLastActivity) > THRESHOLDS.idleTimeout)
            /\ (sessions[uid].claudeSpinnerPhase # Null
                  => sessions'[uid].claudeSpinnerPhase # Null)]_vars

\* a bound session whose title names the assistant has taken a later chunk
\* with detection indicators, and has been polled
C4_Witness ==
  \E uid \in DOMAIN sessions :
    /\ IsBound(sessions[uid])
    /\ sessions[uid].title = "claude"
    /\ sessions[uid].claudeState = "working"
    /\ SpinnerRegexTest(sessions[uid].lastOutput)
    /\ polled

----------------------------------------------------------------------------
(* extractCwd as a function: C5, C6 *)

\* ESC]7;file://host/c/proj BEL
PcOsc7 == Prompt(28, <<Cap("OSC 7", <<"/", "c", "/", "proj">>)>>)

\* "MINGW64 /c/work": the MINGW regex and the Unix Path regex both match
PcMingw == Prompt(15, <<Cap("MINGW", <<"/", "c", "/", "work">>),
                        Cap("Unix Path", <<"/", "c", "/", "work">>)>>)

\* "PS D:\src> "
PcPs == Prompt(11, <<Cap("PS Prompt", <<"D", ":", "\\", "src">>)>>)

\* "C:\Windows\System32>" at the start of a line
PcCmdSystem == Prompt(20, <<Cap("CMD Prompt", <<"C", ":", "\\", "Windows", "\\", "System32">>)>>)

\* "C:\proj>" at the start of a line
PcCmd == Prompt(8, <<Cap("CMD Prompt", <<"C", ":", "\\", "proj">>)>>)

\* ESC[32mC:\WINDOWS\Temp
PcColourSystem == Prompt(20, <<Cap("Full Windows Path", <<"C", ":", "\\", "WINDOWS", "\\", "Temp">>)>>)

\* ESC[34m ~/code ESC[0m
PcTilde == Prompt(18, <<Cap("Tilde Prompt", <<" ", "~", "/", "code", " ">>)>>)

ExtractPieces == {PcOsc7, PcMingw, PcPs, PcCmdSystem, PcCmd, PcColourSystem, PcTilde}

MaxPieces == 2

\* texts of up to MaxPieces different pieces, a newline between two
ExtractTexts ==
  {<<>>} \cup
  UNION {{IF Len(ps) = 0 THEN <<>> ELSE
          LET F[k \in 1..Len(ps)] ==
                IF k = 1 THEN <<ps[1]>> ELSE F[k - 1] \o <<Txt(0, 1), ps[k]>>
          IN F[Len(ps)]
            : ps \in {q \in [1..n -> ExtractPieces] : \A a, b \in 1..n : a # b => q[a] # q[b]}}
         : n \in 1..MaxPieces}

Reverse(seq) == [k \in 1..Len(seq) |-> seq[Len(seq) + 1 - k]]

Rotate(seq, r) == [k \in 1..Len(seq) |-> seq[((k - 1 + r) % Len(seq)) + 1]]

\* the orders the registry is tried in: the shipped one and its reverse, rotated
Registries ==
  {Rotate(cwdPatterns, r) : r \in {0, 3, 7}} \cup
  {Rotate(Reverse(cwdPatterns), r) : r \in {0, 4}}

InitExtract ==
  /\ now = StartTime
  /\ advances = 0
  /\ detector = "registry"
  /\ userConfig = [enableClaudeDetection |-> TRUE]
  /\ store = [sessions |-> Empty, activeUid |-> NoUid, life |-> [u \in Uids |-> "fresh"]]
  /\ sessions = Empty
  /\ activeUid = NoUid
  /\ cwdBuffers = Empty
  /\ cwdBufferTimeouts = Empty
  /\ gitDebounce = Empty
  /\ visibleSessions = {}
  /\ gitExec = {}
  /\ polled = FALSE
  /\ received = Empty
  /\ xin \in [data : ExtractTexts, registry : Registries]
  /\ xout = <<>>
  /\ cleared = {}

\* one call extractCwd(xin.data) with the registry in the order xin.registry
CallExtractCwd ==
  /\ xout = <<>>
  /\ xout' = <<ExtractCwdWith(xin.registry, xin.data)>>
  /\ UNCHANGED <<now, advances, detector, userConfig, store, sessions, activeUid, cwdBuffers,
                 cwdBufferTimeouts, gitDebounce, visibleSessions, gitExec, polled,
                 received, xin, cleared>>

NextExtract == CallExtractCwd

SpecExtract == InitExtract /\ [][NextExtract]_vars

\* what the registry entry cwdPatterns[k] makes of the text
PatternMatches(k, data) == RegexMatch(data, cwdPatterns[k].name) # <<>>

PatternPath(k, data) ==
  ApplyTransform(cwdPatterns[k], Trim(RegexMatch(data, cwdPatterns[k].name)))

PatternSkips(k, data) ==
  /\ PatternMatches(k, data)
  /\ cwdPatterns[k].name \in {"CMD Prompt", "Full Windows Path"}
  /\ SkipSystemPath(PatternPath(k, data))

Candidates(data) ==
  {k \in 1..Len(cwdPatterns) : PatternMatches(k, data) /\ ~PatternSkips(k, data)}

ResultOf(k, data) ==
  [path |-> PatternPath(k, data), patternName |-> cwdPatterns[k].name,
   priority |-> cwdPatterns[k].priority]

\* C5: when some pattern matches unskipped, extractCwd returns the match of
\* the pattern with the highest priority among them, in whatever order the
\* registry lists the patterns
C5_HighestPriorityWins ==
  (xout # <<>> /\ Candidates(xin.data) # {})
    => \E k \in Candidates(xin.data) :
         /\ \A j \in Candidates(xin.data) : cwdPatterns[k].priority >= cwdPatterns[j].priority
         /\ xout[1] = ResultOf(k, xin.data)

\* two patterns matched and the registry listed the lower-priority one first;
\* the result is the higher-priority one
C5_Witness ==
  /\ xout # <<>>
  /\ \E a, b \in 1..Len(xin.registry) :
       /\ a < b
       /\ xin.registry[a].priority < xin.registry[b].priority
       /\ RegexMatch(xin.data, xin.registry[a].name) # <<>>
       /\ RegexMatch(xin.data, xin.registry[b].name) # <<>>
       /\ xout[1].patternName = xin.registry[b].name

\* C6: a pattern whose skipIf is true for its path is never the result; the
\* result is the best of the other matching patterns, and there is none when
\* no other pattern matches
C6_SkippedExcluded ==
  \A k \in 1..Len(cwdPatterns) :
    (xout # <<>> /\ PatternSkips(k, xin.data))
      => LET others == Candidates(xin.data) IN
         /\ xout[1].patternName # cwdPatterns[k].name
         /\ others = {} => xout[1] = NoResult
         /\ others # {} =>
              \E o \in others :
                /\ xout[1] = ResultOf(o, xin.data)
                /\ \A j \in others : cwdPatterns[o].priority >= cwdPatterns[j].priority

\* a skipped CMD prompt with a lower-priority match beside it: the result is
\* the lower-priority match
C6_Witness ==
  /\ xout # <<>>
  /\ PatternSkips(7, xin.data)
  /\ xout[1].priority < cwdPatterns[7].priority
  /\ xout[1].patternName = "Tilde Prompt"

----------------------------------------------------------------------------
(* The CWD buffer, its flush timer and the end of a session: C7 - C10 *)

\* "PS C:\proj> "
BfPs == <<Prompt(12, <<Cap("PS Prompt", <<"C", ":", "\\", "proj">>)>>)>>

\* ESC]7;file://host/c/proj BEL: the same directory, reported another way
BfOsc7 == <<PcOsc7>>

\* "MINGW64 /c/work"
BfMingw == <<PcMingw>>

\* output without a prompt, nearly as long as the buffer
BfFill == <<Txt(1, 4090)>>

BufChunks == {BfPs, BfOsc7, BfMingw, BfFill}

\* below the flush timeout, the flush timeout, the git debounce
BufSteps == {100, 150, 500}

NextBuf ==
  \/ SessionAdd("u1")
  \/ \E data \in BufChunks : SessionAddData(data)
  \/ \E d \in BufSteps : AdvanceTime(d)
  \/ PollSessions
  \/ CwdBufferTimeout("u1")
  \/ GitDebounceTimeout("u1")
  \/ SessionUserExit("u1")
  \/ SessionPtyExit("u1")

\* chunks without assistant indicators: one detection module is enough
InitBuf == InitState /\ detector = "registry"

SpecBuf == InitBuf /\ [][NextBuf]_vars

\* the chunks in arrival order, as one string
RECURSIVE Flatten(_)
Flatten(chunks) ==
  IF chunks = <<>> THEN <<>>
  ELSE Concat(Flatten(SubSeq(chunks, 1, Len(chunks) - 1)), chunks[Len(chunks)])

\* C7: a flush that resolves the session's current cwd leaves the session
\* record as it was and sets no git timer
C7_SamePathNoEffect ==
  [][\A uid \in Uids :
       (/\ CwdBufferTimeout(uid)
        /\ uid \in DOMAIN sessions
        /\ BufferOf(uid) # <<>>
        /\ ExtractCwd(BufferOf(uid)) # NoResult
        /\ ExtractCwd(BufferOf(uid)).path = sessions[uid].cwd)
         => /\ sessions' = sessions
            /\ gitDebounce' = gitDebounce
            /\ gitExec' = gitExec]_vars

\* the OSC 7 report of the directory the session is already in has been
\* flushed, and the git timer is the one of an earlier flush
C7_Witness ==
  \E uid \in DOMAIN sessions :
    /\ sessions[uid].lastOutput = BfOsc7
    /\ sessions[uid].cwd = <<"C", ":", "\\", "proj">>
    /\ uid \in DOMAIN cwdBuffers /\ cwdBuffers[uid] = <<>>
    /\ uid \in DOMAIN cwdBufferTimeouts /\ ~cwdBufferTimeouts[uid].pending
    /\ uid \in DOMAIN gitDebounce
    /\ gitDebounce[uid].at < cwdBufferTimeouts[uid].at

\* C8 as stated: every chunk restarts the 150 ms flush timer; the timer fires
\* only after 150 ms without a chunk, and when it fires the extraction runs on
\* what has accumulated and the buffer is left empty
C8_FlushAfterQuiet ==
  [][\A uid \in Uids :
       /\ \A data \in BufChunks :
            (store.activeUid = uid /\ uid \in DOMAIN sessions /\ SessionAddData(data))
              => cwdBufferTimeouts'[uid] = FlushTimer(now, 1)
       /\ CwdBufferTimeout(uid)
            => /\ uid \in DOMAIN sessions => now - sessions[uid].lastOutputTime >= CWD_BUFFER_TIMEOUT
               /\ uid \in DOMAIN cwdBuffers' => cwdBuffers'[uid] = <<>>
               /\ (uid \in DOMAIN sessions /\ ExtractCwd(BufferOf(uid)) # NoResult)
                    => sessions'[uid].cwd = ExtractCwd(BufferOf(uid)).path]_vars

\* C9: a session's buffer is at most 4096 characters long and is the last 4096
\* characters of the chunks received since its last flush, in arrival order
C9_BufferIsTail ==
  \A uid \in DOMAIN cwdBuffers :
    /\ StrLen(cwdBuffers[uid]) <= 4096
    /\ uid \in DOMAIN received
    /\ cwdBuffers[uid] = SliceLast(Flatten(received[uid]), 4096)

\* a prompt and then a long output have arrived since the last flush: the
\* buffer is full and the prompt's beginning has been dropped
C9_Witness ==
  \E uid \in DOMAIN cwdBuffers :
    /\ Len(received[uid]) = 2
    /\ received[uid][1] = BfPs
    /\ StrLen(Flatten(received[uid])) > 4096
    /\ StrLen(cwdBuffers[uid]) = 4096
    /\ cwdBuffers[uid][1].w = "cut"

\* C10: a session whose SESSION_PTY_EXIT has been handled has no pending flush
\* timer, no pending git timer, no buffer and no record
C10_NothingLeftAfterExit ==
  \A uid \in Uids :
    store.life[uid] = "gone"
      => /\ ~(uid \in DOMAIN cwdBufferTimeouts /\ cwdBufferTimeouts[uid].pending)
         /\ ~(uid \in DOMAIN gitDebounce /\ gitDebounce[uid].pending)
         /\ uid \notin DOMAIN cwdBuffers
         /\ uid \notin DOMAIN sessions

\* the session ended with its flush timer and its git timer both pending
C10_Witness ==
  /\ store.life["u1"] = "gone"
  /\ "u1" \notin DOMAIN sessions
  /\ cleared = {<<"u1", "gitDebounce">>, <<"u1", "cwdBufferTimeouts">>}

----------------------------------------------------------------------------
(* The ways a session's record goes away: C11 *)

EndChunks == {BfPs}

EndSteps == {100, 500}

NextEnd ==
  \/ SessionAdd("u1")
  \/ \E data \in EndChunks : SessionAddData(data)
  \/ \E d \in EndSteps : AdvanceTime(d)
  \/ PollSessions
  \/ CwdBufferTimeout("u1")
  \/ GitDebounceTimeout("u1")
  \/ SessionUserExit("u1")
  \/ SessionPtyExit("u1")
  \/ OnUnload

SpecEnd == InitBuf /\ [][NextEnd]_vars

\* C11 as stated: a session id without a record has no pending flush timer, no
\* pending git timer and no chunk buffer
C11_NoOrphans ==
  \A uid \in Uids :
    uid \notin DOMAIN sessions
      => /\ ~(uid \in DOMAIN cwdBufferTimeouts /\ cwdBufferTimeouts[uid].pending)
         /\ ~(uid \in DOMAIN gitDebounce /\ gitDebounce[uid].pending)
         /\ uid \notin DOMAIN cwdBuffers

----------------------------------------------------------------------------
(* The git debounce and the git commands: C12, C15 *)

GitChunks == {BfPs, BfMingw}

GitSteps == {150, 500}

\* what git symbolic-ref prints, and how many lines git status prints
GitBranches == {"main"}

GitDirty == {2}

NextGit ==
  \/ SessionAdd("u1")
  \/ \E data \in GitChunks : SessionAddData(data)
  \/ \E d \in GitSteps : AdvanceTime(d)
  \/ CwdBufferTimeout("u1")
  \/ GitDebounceTimeout("u1")
  \/ \E q \in gitExec, err \in BOOLEAN : GitRevParseDone(q, err)
  \/ \E q \in gitExec, err \in BOOLEAN, stdout \in GitBranches : GitBranchDone(q, err, stdout)
  \/ \E q \in gitExec, err \in BOOLEAN, lines \in GitDirty : GitStatusDone(q, err, lines)

SpecGit == InitBuf /\ [][NextGit]_vars

----------------------------------------------------------------------------
(* The tick and a silent working session: C13 *)

ChSpinner == <<Spin(2), Txt(1, 9)>>

TickChunks == {ChSpinner, ChPlain}

\* past stateDebounce, exactly spinnerIdleTimeout, past spinnerIdleTimeout
TickSteps == {500, 5000, 5001}

NextTick ==
  \/ SessionAdd("u1")
  \/ \E data \in TickChunks : SessionAddData(data)
  \/ \E d \in TickSteps : AdvanceTime(d)
  \/ PollSessions
  \/ CwdBufferTimeout("u1")

SpecTick == InitBuf /\ [][NextTick]_vars

\* pollSessions is on a setInterval: while the plugin is loaded it keeps running
SpecTickFair == SpecTick /\ WF_vars(PollSessions)

\* the session is bound, working, and has been silent for longer than the
\* working-to-waiting timeout
SilentWorking(uid) ==
  /\ uid \in DOMAIN sessions
  /\ sessions[uid].claudeDetected
  /\ sessions[uid].claudeState = "working"
  /\ now - OrZero(sessions[uid].claudeLastActivity) > 5000

\* C13: a tick moves a bound working session to waiting, with
\* lastStateChangeTime the tick's time, when more than 5000 ms have passed
\* since its last activity, and leaves its state and lastStateChangeTime alone
\* before that; and a working session that is silent for longer than the
\* timeout does become waiting (unless a chunk arrives first)
C13_TickMovesWorkingToWaiting ==
  /\ [][\A uid \in DOMAIN sessions :
          (/\ PollSessions
           /\ uid \in DOMAIN sessions'
           /\ sessions[uid].claudeDetected
           /\ sessions[uid].claudeState = "working")
            => IF now - OrZero(sessions[uid].claudeLastActivity) > 5000
               THEN /\ sessions'[uid].claudeState = "waiting"
                    /\ sessions'[uid].claudeLastStateChange = now
               ELSE /\ sessions'[uid].claudeState = "working"
                    /\ sessions'[uid].claudeLastStateChange
                         = sessions[uid].claudeLastStateChange]_vars
  /\ \A uid \in Uids :
       SilentWorking(uid)
         ~> (uid \in DOMAIN sessions
             /\ (sessions[uid].claudeState = "waiting"
                 \/ sessions[uid].claudeLastActivity = now))

\* a tick after 5001 ms of silence has moved the working session to waiting
C13_Witness ==
  \E uid \in DOMAIN sessions :
    /\ sessions[uid].claudeDetected
    /\ sessions[uid].claudeState = "waiting"
    /\ sessions[uid].claudeLastStateChange = now
    /\ polled
    /\ now - sessions[uid].claudeLastActivity = 5001

----------------------------------------------------------------------------
(* Two sessions side by side: C14 *)

FrameChunks == {BfPs}

\* one step that lets both the flush timer and the git timer run out
FrameSteps == {500}

\* the active session has received nothing since its last flush: the shells of
\* this specification write one chunk per quiet period
QuietBefore ==
  store.activeUid \in DOMAIN received => received[store.activeUid] = <<>>

NextFrame ==
  \/ \E uid \in Uids : SessionAdd(uid)
  \/ \E uid \in Uids : SessionSetActive(uid)
  \/ \E data \in FrameChunks : QuietBefore /\ SessionAddData(data)
  \/ \E d \in FrameSteps : AdvanceTime(d)
  \/ \E uid \in Uids : CwdBufferTimeout(uid)
  \/ \E uid \in Uids : GitDebounceTimeout(uid)
  \/ \E q \in gitExec : GitRevParseDone(q, FALSE)
  \/ \E q \in gitExec : GitBranchDone(q, FALSE, "main")
  \/ \E q \in gitExec : GitStatusDone(q, FALSE, 2)

SpecFrame == InitBuf /\ [][NextFrame]_vars

\* the record, buffer and timers of session v are what they were
OthersKept(v) ==
  /\ v \in DOMAIN sessions' <=> v \in DOMAIN sessions
  /\ v \in DOMAIN sessions => sessions'[v] = sessions[v]
  /\ v \in DOMAIN cwdBuffers' <=> v \in DOMAIN cwdBuffers
  /\ v \in DOMAIN cwdBuffers => cwdBuffers'[v] = cwdBuffers[v]
  /\ v \in DOMAIN cwdBufferTimeouts' <=> v \in DOMAIN cwdBufferTimeouts
  /\ v \in DOMAIN cwdBufferTimeouts => cwdBufferTimeouts'[v] = cwdBufferTimeouts[v]
  /\ v \in DOMAIN gitDebounce' <=> v \in DOMAIN gitDebounce
  /\ v \in DOMAIN gitDebounce => gitDebounce'[v] = gitDebounce[v]
  /\ {q \in gitExec' : q.uid = v} = {q \in gitExec : q.uid = v}

\* C14: a chunk, a flush, the debounced start of a git query and the result
\* of a git query for one session leave the record, the buffer and the timers
\* of every other session as they were
C14_OtherSessionsUntouched ==
  [][\A v \in Uids :
       /\ (\E data \in FrameChunks : SessionAddData(data) /\ store.activeUid # v)
            => OthersKept(v)
       /\ \A uid \in Uids \ {v} :
            (CwdBufferTimeout(uid) \/ GitDebounceTimeout(uid)) => OthersKept(v)
       /\ \A q \in gitExec :
            (/\ q.uid # v
             /\ \/ GitRevParseDone(q, FALSE)
                \/ GitBranchDone(q, FALSE, "main")
                \/ GitStatusDone(q, FALSE, 2))
              => OthersKept(v)]_vars

\* the flush of one session has started a git timer while the other session
\* has a record with a cwd, a buffer and timers of its own pending
C14_Witness ==
  /\ DOMAIN sessions = Uids
  /\ \E uid \in Uids, v \in Uids :
       /\ uid # v
       /\ uid \in DOMAIN gitDebounce /\ gitDebounce[uid].pending
       /\ gitDebounce[uid].at = now + GIT_DEBOUNCE
       /\ v \in DOMAIN gitDebounce /\ gitDebounce[v].pending
       /\ gitDebounce[v].at < now + GIT_DEBOUNCE
       /\ sessions[v].cwd # <<>>
       /\ sessions[uid].cwd # <<>>

----------------------------------------------------------------------------
(* Failing git commands: C15 *)

\* the record of uid after the step has the neutral git info and is otherwise
\* what it was
NeutralGitOnly(uid) ==
  /\ uid \in DOMAIN sessions'
  /\ sessions'[uid] = [sessions[uid] EXCEPT !.git = [branch |-> "", dirty |-> 0]]

\* C15: when a git command of a session's query fails (rev-parse outside a
\* work tree, or the branch or the status command ending with an error), the
\* session's git info is {branch: '', dirty: 0} afterwards and the rest of its
\* record is unchanged
C15_FailureGivesNeutralGit ==
  [][\A q \in gitExec :
       (/\ q.uid \in DOMAIN sessions
        /\ \/ GitRevParseDone(q, TRUE)
           \/ \E b \in GitBranches : GitBranchDone(q, TRUE, b)
           \/ \E n \in GitDirty : GitStatusDone(q, TRUE, n))
         => NeutralGitOnly(q.uid)]_vars

----------------------------------------------------------------------------
(* Activity intensity and burst count: C16 *)

\* a key stroke echoed by the shell (data.length <= 5)
ChKey == <<Txt(1, 1)>>

ActivityChunks == {ChPlain, ChKey}

\* below BURST_THRESHOLD, below 1000 ms, past the 1500 ms of the decay
ActivitySteps == {200, 500, 2000}

\* burst counts a session has after that many chunks 200 ms apart
BurstCounts == {1, 2, 24, 25, 99, 100}

\* session u1 has just received the last of b chunks of plain output that
\* came 200 ms apart, each flushed before the next one
InitActivity ==
  /\ now = StartTime
  /\ advances = 0
  /\ detector = "registry"
  /\ userConfig = [enableClaudeDetection |-> TRUE]
  /\ store = [sessions |-> Put(Empty, "u1", StoreSession("u1")), activeUid |-> "u1",
              life |-> [u \in Uids |-> IF u = "u1" THEN "live" ELSE "fresh"]]
  /\ activeUid = NoUid
  /\ \E b \in BurstCounts :
       sessions = Put(Empty, "u1",
                      [ParsedSession(NewSession("u1", StoreSession("u1").pid,
                                                StoreSession("u1").shell, ""),
                                     "u1", ChPlain)
                         EXCEPT !.outputBurstCount = b,
                                !.activityType = IF b = 1 THEN "output" ELSE "command",
                                !.activityIntensity =
                                   IF b = 1 THEN 35 * Scale ELSE Min(b * 4, 100) * Scale])
  /\ cwdBuffers = Put(Empty, "u1", AppendToBuffer(<<>>, ChPlain))
  /\ cwdBufferTimeouts = Put(Empty, "u1", FlushTimer(StartTime, 1))
  /\ gitDebounce = Empty
  /\ visibleSessions = {}
  /\ gitExec = {}
  /\ polled = FALSE
  /\ received = Put(Empty, "u1", <<ChPlain>>)
  /\ xin = <<>>
  /\ xout = <<>>
  /\ cleared = {}

NextActivity ==
  \/ \E data \in ActivityChunks : SessionAddData(data)
  \/ \E d \in ActivitySteps : AdvanceTime(d)
  \/ PollSessions
  \/ CwdBufferTimeout("u1")

SpecActivity == InitActivity /\ [][NextActivity]_vars

\* C16 as stated: activityIntensity is an integer between 0 and 100 and
\* outputBurstCount is an integer between 0 and 100, in every reachable state
C16_IntegerIntensity ==
  \A uid \in DOMAIN sessions :
    /\ sessions[uid].activityIntensity \in 0..(100 * Scale)
    /\ sessions[uid].activityIntensity % Scale = 0
    /\ sessions[uid].outputBurstCount \in 0..100

\* C16, amended: activityIntensity is a number between 0 and 100, in general
\* not an integer (a tick multiplies it by 0.85, a key stroke by 0.95), and
\* outputBurstCount is an integer between 0 and 100, in every reachable state
C16_IntensityInRange ==
  \A uid \in DOMAIN sessions :
    /\ sessions[uid].activityIntensity \in 0..(100 * Scale)
    /\ sessions[uid].outputBurstCount \in 0..100

\* the hundredth chunk of a burst, a key stroke (95) and a tick 2000 ms later
\* (80.75, burst count 80)
C16_Witness ==
  /\ "u1" \in DOMAIN sessions
  /\ polled
  /\ sessions["u1"].activityIntensity = 8075 * (Scale \div 100)
  /\ sessions["u1"].outputBurstCount = 80

----------------------------------------------------------------------------
(* First match and highest priority in the shipped registry: C17 *)

\* the first pattern, in the order of declaration, that matches unskipped
FirstCandidate(data) ==
  CHOOSE k \in Candidates(data) : \A m \in Candidates(data) : k <= m

----------------------------------------------------------------------------
(* What starts a git check: C18 *)

VisChunks == {BfPs}

VisSteps == {150, 500}

\* calls of getGitInfo merged into one pending timer, at most
MaxTriggers == 3

\* the observer reports a card that was out of view as intersecting
CardEnters(uid) ==
  /\ uid \notin visibleSessions
  /\ TriggersMerged(gitDebounce, uid) < MaxTriggers
  /\ CardVisible(uid)

NextVis ==
  \/ SessionAdd("u1")
  \/ \E data \in VisChunks : SessionAddData(data)
  \/ \E d \in VisSteps : AdvanceTime(d)
  \/ CwdBufferTimeout("u1")
  \/ GitDebounceTimeout("u1")
  \/ \E q \in gitExec : GitRevParseDone(q, TRUE)
  \/ SessionSetActive("u1")
  \/ CardEnters("u1")
  \/ CardHidden("u1")

SpecVis == InitBuf /\ [][NextVis]_vars

\* the step has scheduled a git check for uid (getGitInfo has set its timer)
GitCheckScheduled(uid) ==
  /\ uid \in DOMAIN gitDebounce'
  /\ gitDebounce'[uid].pending
  /\ uid \in DOMAIN gitDebounce => gitDebounce'[uid] # gitDebounce[uid]

\* C18: a git check of a session is scheduled only by a step that changes the
\* session's cwd; activating the session, its card coming into view and a
\* prompt for the same directory schedule none
C18_GitCheckOnlyOnCwdChange ==
  [][\A uid \in Uids :
       GitCheckScheduled(uid)
         => /\ uid \in DOMAIN sessions
            /\ uid \in DOMAIN sessions'
            /\ sessions'[uid].cwd # sessions[uid].cwd]_vars

----------------------------------------------------------------------------
(* The chunk that binds a session: C19 *)

\* C19: a chunk that binds an unbound session, whatever spinner glyph or state
\* pattern it contains, leaves the session idle with spinnerPhase null and
\* with lastActivityTime and lastStateChangeTime the chunk's time
C19_BindingLeavesIdle ==
  [][\A data \in AssistChunks :
       LET cur == store.activeUid IN
       (/\ SessionAddData(data)
        /\ cur \in DOMAIN sessions'
        /\ cur \in DOMAIN sessions => ~IsBound(sessions[cur])
        /\ IsBound(sessions'[cur]))
         => /\ sessions'[cur].claudeState = "idle"
            /\ sessions'[cur].claudeSpinnerPhase = Null
            /\ sessions'[cur].claudeLastActivity = now
            /\ sessions'[cur].claudeLastStateChange = now]_vars

\* the session has just been bound by a chunk with a spinner glyph and the
\* word thinking in it
C19_Witness ==
  \E uid \in DOMAIN sessions :
    /\ IsBound(sessions[uid])
    /\ sessions[uid].lastOutput = ChSpinnerThinking
    /\ sessions[uid].claudeState = "idle"
    /\ sessions[uid].claudeSpinnerPhase = Null
    /\ sessions[uid].claudeLastStateChange = now
    /\ sessions[uid].claudeLastActivity = now

----------------------------------------------------------------------------
(* The timeout rules on a chunk without spinner and pattern: C20 *)

TimeoutChunks == {ChSpinner, ChThinking, ChPlain}

\* stateDebounce, spinnerIdleTimeout exactly and just past, just past idleTimeout
TimeoutSteps == {500, 5000, 5001, 30001}

NextTimeout ==
  \/ SessionAdd("u1")
  \/ \E data \in TimeoutChunks : QuietBefore /\ SessionAddData(data)
  \/ \E d \in TimeoutSteps : AdvanceTime(d)
  \/ PollSessions
  \/ CwdBufferTimeout("u1")

SpecTimeout == InitState /\ [][NextTimeout]_vars

\* neither the spinner test nor a state pattern of the detector in use fires
PatternFree(data) ==
  /\ detectSpinnerPhase(data) = Null
  /\ IF detector = "legacy"
     THEN ~ThinkingPatternsTest(data) /\ ~WaitingPatternsTest(data)
     ELSE FirstStateMatch(CLAUDE_ASSISTANT.states, data) = "null"

\* the step is a chunk for the bound active session
ChunkForBound(data) ==
  /\ ActiveIsBound
  /\ SessionAddData(data)
  /\ store.activeUid \in DOMAIN sessions'

\* the chunk has left state and lastStateChangeTime of the active session alone
StateKept ==
  /\ sessions'[store.activeUid].claudeState = sessions[store.activeUid].claudeState
  /\ sessions'[store.activeUid].claudeLastStateChange
       = sessions[store.activeUid].claudeLastStateChange

\* the chunk has moved the active session to state st at the chunk's time
StateSet(st) ==
  /\ sessions'[store.activeUid].claudeState = st
  /\ sessions'[store.activeUid].claudeLastStateChange = now

\* what the timeout rules make of a chunk without spinner and pattern
TimeoutRules ==
  LET session == sessions[store.activeUid]
      since   == now - OrZero(session.claudeLastActivity)
  IN IF session.claudeState = "working" /\ since > 5000 THEN StateSet("waiting")
     ELSE IF since > 30000 /\ session.claudeState # "idle" THEN StateSet("idle")
     ELSE StateKept

\* a chunk in which a spinner or a pattern fired: the state after it is the
\* state before it or the one the spinner or pattern stand for
NoTimeoutOnPattern(data) ==
  LET session == sessions[store.activeUid] IN
  /\ (session.claudeState = "working" /\ now - OrZero(session.claudeLastActivity) > 5000)
       => sessions'[store.activeUid].claudeState \in {"working", "thinking"}
  /\ (session.claudeState # "idle" /\ now - OrZero(session.claudeLastActivity) > 30000)
       => sessions'[store.activeUid].claudeState # "idle"

\* C20 as stated: on a chunk without spinner glyph and state pattern a bound
\* session goes from working to waiting when more than 5000 ms have passed
\* since its last activity, else to idle when more than 30000 ms have passed
\* (a change only if it was not idle), else keeps its state; a chunk with a
\* spinner or a pattern is not subject to these rules
C20_TimeoutsOnPlainChunk ==
  [][\A data \in TimeoutChunks :
       ChunkForBound(data)
         => IF PatternFree(data) THEN TimeoutRules ELSE NoTimeoutOnPattern(data)]_vars

\* C20, amended: the same, except that a change the timeout rules call for
\* less than stateDebounce (500 ms) after the last state change is dropped
C20_TimeoutsUnlessDebounced ==
  [][\A data \in TimeoutChunks :
       ChunkForBound(data)
         => IF PatternFree(data)
            THEN IF SinceStateChange < THRESHOLDS.stateDebounce
                 THEN StateKept ELSE TimeoutRules
            ELSE NoTimeoutOnPattern(data)]_vars

\* a plain chunk 5001 ms after the last activity has moved the working session
\* to waiting
C20_Witness ==
  \E uid \in DOMAIN sessions :
    /\ IsBound(sessions[uid])
    /\ sessions[uid].lastOutput = ChPlain
    /\ sessions[uid].claudeState = "waiting"
    /\ sessions[uid].claudeLastStateChange = now
    /\ sessions[uid].claudeLastActivity = now
    /\ ~polled

----------------------------------------------------------------------------
(* Chunks that match the patterns of several states: C21 *)

\* binds the session and matches no state pattern
ChBanner == <<Tok("claude code", 11)>>

ChExecuting == <<Txt(1, 4), Tok("executing", 9)>>

ChExecThinking == <<Tok("executing", 9), Txt(1, 1), Tok("thinking", 8)>>

ChThinkQuestion == <<Tok("thinking", 8), Txt(1, 1), Tok("?", 1)>>

PatternChunks == {ChBanner, ChExecuting, ChExecThinking, ChThinkQuestion, ChQuestion}

\* stateDebounce, so that the next chunk's change is accepted
PatternSteps == {500}

NextPattern ==
  \/ SessionAdd("u1")
  \/ \E data \in PatternChunks : QuietBefore /\ SessionAddData(data)
  \/ \E d \in PatternSteps : AdvanceTime(d)
  \/ PollSessions
  \/ CwdBufferTimeout("u1")

SpecPattern == InitState /\ [][NextPattern]_vars

\* the patterns the detector in use declares for a state
DeclaredPatternsTest(stateName, data) ==
  IF detector = "registry" THEN StatePatternsTest(stateName, data)
  ELSE CASE stateName = "working"  -> WorkingPatternsTest(data)
         [] stateName = "thinking" -> ThinkingPatternsTest(data)
         [] stateName = "waiting"  -> WaitingPatternsTest(data)
         [] OTHER -> FALSE

\* the first state, in the declared order, one of whose patterns matches
FirstDeclaredMatch(data) ==
  IF DeclaredPatternsTest("working", data) THEN "working"
  ELSE IF DeclaredPatternsTest("thinking", data) THEN "thinking"
  ELSE IF DeclaredPatternsTest("waiting", data) THEN "waiting"
  ELSE "null"

\* C21: for a bound session, a chunk without spinner glyph that matches the
\* patterns of one or more of working, thinking, waiting selects the first of
\* them in that order (the change not being inside the debounce window); idle
\* is never selected by a pattern
C21_FirstDeclaredStateWins ==
  [][\A data \in PatternChunks :
       (/\ ChunkForBound(data)
        /\ detectSpinnerPhase(data) = Null
        /\ FirstDeclaredMatch(data) # "null"
        /\ SinceStateChange >= THRESHOLDS.stateDebounce)
         => sessions'[store.activeUid].claudeState = FirstDeclaredMatch(data)]_vars

----------------------------------------------------------------------------
(* The activity time of a bound session: C22 *)

\* C22: a chunk leaves claudeLastActivity of a bound session at the chunk's
\* time, whether its state change is accepted, suppressed or absent; the
\* claudeLastActivity of a session that stays unbound stays null
C22_ChunkStampsActivity ==
  [][\A data \in AssistChunks :
       (SessionAddData(data) /\ store.activeUid \in DOMAIN sessions')
         => IF IsBound(sessions'[store.activeUid])
            THEN sessions'[store.activeUid].claudeLastActivity = now
            ELSE sessions'[store.activeUid].claudeLastActivity = Null]_vars

\* a spinner chunk 400 ms after the binding chunk: its change was suppressed
\* by the debounce and the activity time is the chunk's time all the same
C22_Witness ==
  \E uid \in DOMAIN sessions :
    /\ IsBound(sessions[uid])
    /\ sessions[uid].lastOutput = ChSpinnerThinking
    /\ sessions[uid].claudeState = "idle"
    /\ sessions[uid].claudeLastStateChange = now - 400
    /\ sessions[uid].claudeLastActivity = now

----------------------------------------------------------------------------
(* The spinner phase: C23 *)

\* the indices in SPINNER_CHARS of the glyphs in the chunk
GlyphsIn(data) ==
  {data[k].i : k \in {j \in 1..Len(data) : data[j].w = "spin"}}

\* C23: claudeSpinnerPhase is null or an index 0..9 of the spinner sequence in
\* every reachable state, and an accepted spinner chunk sets it to the lowest
\* index of the glyphs that occur in the chunk
C23_SpinnerPhaseIsLowestIndex ==
  /\ [](\A uid \in DOMAIN sessions :
          sessions[uid].claudeSpinnerPhase \in {Null} \cup (0..9))
  /\ [][\A data \in AssistChunks :
          (/\ ChunkForBound(data)
           /\ GlyphsIn(data) # {}
           /\ SinceStateChange >= THRESHOLDS.stateDebounce)
            => /\ sessions'[store.activeUid].claudeSpinnerPhase \in GlyphsIn(data)
               /\ \A g \in GlyphsIn(data) :
                    sessions'[store.activeUid].claudeSpinnerPhase <= g]_vars

\* the chunk with the glyphs of index 3 and 1, in that order, has been accepted
C23_Witness ==
  \E uid \in DOMAIN sessions :
    /\ sessions[uid].lastOutput = ChSpinnerThinking
    /\ sessions[uid].claudeState = "working"
    /\ sessions[uid].claudeLastStateChange = now
    /\ sessions[uid].claudeSpinnerPhase = 1

----------------------------------------------------------------------------
(* The decay of the activity intensity over the ticks: C24 *)

POLL_INTERVAL_ACTIVE == 500

\* ticks of the poll interval after the start
MaxTicks == 30

\* the shell writes during the first poll interval and is silent afterwards
EarlyChunk(data) ==
  /\ now < StartTime + POLL_INTERVAL_ACTIVE
  /\ SessionAddData(data)

\* the poll interval has passed since the last tick
IntervalElapses ==
  /\ polled
  /\ now < StartTime + MaxTicks * POLL_INTERVAL_ACTIVE
  /\ \A uid \in Uids : ~Expired(cwdBufferTimeouts, uid) /\ ~Expired(gitDebounce, uid)
  /\ now' = now + POLL_INTERVAL_ACTIVE
  /\ polled' = FALSE
  /\ UNCHANGED <<advances, detector, userConfig, store, sessions, activeUid, cwdBuffers,
                 cwdBufferTimeouts, gitDebounce, visibleSessions, gitExec, received,
                 xin, xout, cleared>>

NextDecay ==
  \/ \E data \in ActivityChunks : EarlyChunk(data)
  \/ IntervalElapses
  \/ PollSessions
  \/ CwdBufferTimeout("u1")

SpecDecay == InitActivity /\ [][NextDecay]_vars

\* the interval timer and the flush timer are timers of the event loop: they fire
SpecDecayFair ==
  SpecDecay /\ WF_vars(IntervalElapses) /\ WF_vars(PollSessions)
            /\ WF_vars(CwdBufferTimeout("u1"))

\* more than 1.5 s have passed since the last output chunk of the session
SilentSession(session) ==
  session.lastOutputTime = Null \/ now - session.lastOutputTime > 1500

\* C24: a tick more than 1.5 s after the last output chunk multiplies
\* activityIntensity by 0.85 and outputBurstCount by 0.8 (floored), and sets
\* the intensity to 0 and activityType to idle when the product is below 3; a
\* tick within 1.5 s changes none of the three; and a session that receives no
\* more chunks ends with activityIntensity = 0 and activityType = idle for good
C24_DecayToIdle ==
  /\ [][\A uid \in DOMAIN sessions :
          (PollSessions /\ uid \in DOMAIN sessions')
            => LET session == sessions[uid]
                   decayed == (session.activityIntensity * 85) \div 100
               IN IF SilentSession(session)
                  THEN /\ sessions'[uid].outputBurstCount
                            = (session.outputBurstCount * 8) \div 10
                       /\ IF decayed < 3 * Scale
                          THEN /\ sessions'[uid].activityIntensity = 0
                               /\ sessions'[uid].activityType = "idle"
                          ELSE /\ sessions'[uid].activityIntensity = decayed
                               /\ sessions'[uid].activityType = session.activityType
                  ELSE /\ sessions'[uid].activityIntensity = session.activityIntensity
                       /\ sessions'[uid].outputBurstCount = session.outputBurstCount
                       /\ sessions'[uid].activityType = session.activityType]_vars
  /\ <>[](\A uid \in DOMAIN sessions :
            /\ sessions[uid].activityIntensity = 0
            /\ sessions[uid].activityType = "idle")

\* the session is at intensity 0 and idle after the tick 12.5 s after its last
\* output
C24_Witness ==
  /\ "u1" \in DOMAIN sessions
  /\ polled
  /\ sessions["u1"].activityIntensity = 0
  /\ sessions["u1"].activityType = "idle"
  /\ sessions["u1"].outputBurstCount = 0
  /\ now = StartTime + 25 * POLL_INTERVAL_ACTIVE

----------------------------------------------------------------------------
(* Burst chunks: C25 *)

\* the chunk is longer than 5 characters and comes less than BURST_THRESHOLD
\* after the last output chunk of the session
BurstChunk(session, data) ==
  /\ StrLen(data) > 5
  /\ session.lastOutputTime # Null
  /\ now - session.lastOutputTime < BURST_THRESHOLD

\* the record is as a burst chunk leaves it
AfterBurstChunk(session) ==
  /\ session.activityType = "command"
  /\ session.activityIntensity = Min(session.outputBurstCount * 4, 100) * Scale

----------------------------------------------------------------------------
(* Key strokes: C26 *)

\* C26: a chunk of 1 to 5 characters sets activityType = typing and
\* activityIntensity = max(10, intensity x 0.95), at any distance from the
\* last output and from any activityType, and leaves outputBurstCount and
\* lastOutputTime alone
C26_KeyStrokeIsTyping ==
  [][\A data \in ActivityChunks :
       LET cur == store.activeUid IN
       (/\ SessionAddData(data)
        /\ cur \in DOMAIN sessions
        /\ cur \in DOMAIN sessions'
        /\ StrLen(data) \in 1..5)
         => /\ sessions'[cur].activityType = "typing"
            /\ sessions'[cur].activityIntensity
                 = Max(10 * Scale, (sessions[cur].activityIntensity * 95) \div 100)
            /\ sessions'[cur].outputBurstCount = sessions[cur].outputBurstCount
            /\ sessions'[cur].lastOutputTime = sessions[cur].lastOutputTime]_vars

\* a key stroke 2 s or more after the last output: typing at the floor of 10
C26_Witness ==
  /\ "u1" \in DOMAIN sessions
  /\ sessions["u1"].activityType = "typing"
  /\ sessions["u1"].activityIntensity = 10 * Scale
  /\ sessions["u1"].lastOutput = ChKey
  /\ now - sessions["u1"].lastOutputTime >= 2000

----------------------------------------------------------------------------
(* The output type of a chunk: C27 *)

ChErrDone == <<Tok("Error", 5), Txt(1, 1), Tok("done", 4)>>

ChWarnProgress == <<Tok("WARN", 4), Txt(1, 2), Tok("50%", 3)>>

ChDoneDots == <<Tok("done", 4), Txt(1, 1), Tok("...", 3)>>

ChDots == <<Txt(1, 4), Tok("...", 3)>>

\* five characters: too short to be classified
ChShortErr == <<Tok("Error", 5)>>

OutputChunks == {ChErrDone, ChWarnProgress, ChDoneDots, ChDots, ChShortErr, ChPlain}

\* inside the burst threshold, and past the decay and output-type timeouts
OutputSteps == {200, 4000}

NextOutput ==
  \/ SessionAdd("u1")
  \/ \E data \in OutputChunks : QuietBefore /\ SessionAddData(data)
  \/ \E d \in OutputSteps : AdvanceTime(d)
  \/ PollSessions
  \/ CwdBufferTimeout("u1")

SpecOutput == InitBuf /\ [][NextOutput]_vars

\* the categories of OUTPUT_PATTERNS in their order, and whether one matches
OutputTypes == <<"error", "warning", "success", "progress">>

OutputPatternsTest(k, data) ==
  HasWord(data, CASE k = 1 -> {"Error", "ESC[31m"}
                  [] k = 2 -> {"WARN", "ESC[33m"}
                  [] k = 3 -> {"done", "ESC[32m"}
                  [] k = 4 -> {"50%", "..."})

\* the first category whose patterns match a chunk longer than 5 characters
FirstOutputType(data) ==
  LET hits == {k \in 1..4 : OutputPatternsTest(k, data)}
  IN IF StrLen(data) <= 5 \/ hits = {} THEN "null"
     ELSE OutputTypes[CHOOSE k \in hits : \A h \in hits : k <= h]

\* filler of the length of data, matched by no pattern
PlainLike(data) == <<Txt(1, StrLen(data))>>

\* C27: a chunk longer than 5 characters stores the first of error, warning,
\* success, progress whose patterns match it in lastOutputType, with
\* lastOutputTypeTime = now; a chunk without a match or of at most 5 characters
\* leaves both alone; activityType, activityIntensity and outputBurstCount are
\* what a chunk of the same length without any category would give
C27_FirstOutputTypeStored ==
  [][\A data \in OutputChunks :
       LET cur == store.activeUid IN
       (/\ SessionAddData(data)
        /\ cur \in DOMAIN sessions
        /\ cur \in DOMAIN sessions')
         => /\ IF FirstOutputType(data) # "null"
               THEN /\ sessions'[cur].lastOutputType = FirstOutputType(data)
                    /\ sessions'[cur].lastOutputTypeTime = now
               ELSE /\ sessions'[cur].lastOutputType = sessions[cur].lastOutputType
                    /\ sessions'[cur].lastOutputTypeTime = sessions[cur].lastOutputTypeTime
            /\ LET plain == TrackActivity(sessions[cur], cur, PlainLike(data), now)
               IN /\ sessions'[cur].activityType = plain.activityType
                  /\ sessions'[cur].activityIntensity = plain.activityIntensity
                  /\ sessions'[cur].outputBurstCount = plain.outputBurstCount]_vars

\* a chunk with an error word and a success word, the second chunk of a burst,
\* has been stored as error
C27_Witness ==
  /\ "u1" \in DOMAIN sessions
  /\ sessions["u1"].lastOutput = ChErrDone
  /\ sessions["u1"].lastOutputType = "error"
  /\ sessions["u1"].lastOutputTypeTime = now
  /\ "u1" \in DOMAIN received
  /\ received["u1"] = <<ChErrDone>>
  /\ sessions["u1"].outputBurstCount = 2

----------------------------------------------------------------------------
(* The unseen-activity flag: C28, C29 *)

FlagChunks == {ChPlain, ChKey}

\* inside activityTimeout, and past it
FlagSteps == {500, 2000}

NextFlag ==
  \/ \E uid \in Uids : SessionAdd(uid)
  \/ \E uid \in Uids : SessionSetActive(uid)
  \/ \E data \in FlagChunks : QuietBefore /\ SessionAddData(data)
  \/ \E d \in FlagSteps : AdvanceTime(d)
  \/ PollSessions
  \/ \E uid \in Uids : CwdBufferTimeout(uid)

SpecFlag == InitBuf /\ [][NextFlag]_vars

\* C28: a chunk for the foreground session (the host's active session, the one
\* every chunk is delivered to) never sets hasActivity
C28_ForegroundChunkSetsNoFlag ==
  [][\A data \in FlagChunks :
       LET cur == store.activeUid IN
       (/\ SessionAddData(data)
        /\ cur \in DOMAIN sessions
        /\ cur \in DOMAIN sessions'
        /\ ~sessions[cur].hasActivity)
         => ~sessions'[cur].hasActivity]_vars

\* C29: the foreground session never has hasActivity set: not even where the
\* host's active session and the activeUid of the plugin are the same session
C29_ForegroundNeverFlagged ==
  (activeUid = store.activeUid /\ activeUid \in DOMAIN sessions)
    => ~sessions[activeUid].hasActivity

----------------------------------------------------------------------------
(* C30: one flush timer and one git timer a session *)

\* of the timers set for a session under one object, the only one still to fire
\* is the one the object refers to, and only while that one is pending
OnePending(timers) ==
  \A uid \in DOMAIN timers : timers[uid].live = IF timers[uid].pending THEN 1 ELSE 0

\* C30: at every moment a session has at most one flush timer and at most one
\* git debounce timer still to fire, because parseTerminalOutput and
\* getGitInfo clear the session's timer of the kind before they set the next
C30_OneTimerPerKind ==
  /\ OnePending(cwdBufferTimeouts)
  /\ OnePending(gitDebounce)

\* a second chunk arrived while the flush timer of the first was pending, and
\* a second call of getGitInfo while the git timer of the first was pending
C30_Witness ==
  \E uid \in DOMAIN sessions :
    /\ uid \in DOMAIN cwdBufferTimeouts /\ cwdBufferTimeouts[uid].pending
    /\ uid \in DOMAIN received /\ Len(received[uid]) >= 2
    /\ TriggersMerged(gitDebounce, uid) >= 2

----------------------------------------------------------------------------
(* Callbacks that outlive the record of their session: C31 *)

LateChunks == {BfPs}

\* the flush timeout, the git debounce
LateSteps == {150, 500}

NextLate ==
  \/ SessionAdd("u1")
  \/ \E data \in LateChunks : SessionAddData(data)
  \/ \E d \in LateSteps : AdvanceTime(d)
  \/ PollSessions
  \/ CwdBufferTimeout("u1")
  \/ GitDebounceTimeout("u1")
  \/ \E q \in gitExec, err \in BOOLEAN : GitRevParseDone(q, err)
  \/ \E q \in gitExec : GitBranchDone(q, FALSE, "main")
  \/ \E q \in gitExec : GitStatusDone(q, FALSE, 2)
  \/ SessionUserExit("u1")
  \/ SessionPtyExit("u1")

SpecLate == InitBuf /\ [][NextLate]_vars

\* C31: a flush callback or a git result callback that finds no record of its
\* session leaves the session records as they are and creates none; such a
\* flush sets no cwd, takes nothing from the buffer and starts no git check
C31_LateCallbacksChangeNothing ==
  [][/\ \A uid \in Uids :
          (uid \notin DOMAIN sessions /\ CwdBufferTimeout(uid))
            => /\ sessions' = sessions
               /\ cwdBuffers' = cwdBuffers
               /\ gitDebounce' = gitDebounce
               /\ gitExec' = gitExec
     /\ \A q \in gitExec :
          (/\ q.uid \notin DOMAIN sessions
           /\ \/ \E err \in BOOLEAN : GitRevParseDone(q, err)
              \/ GitBranchDone(q, FALSE, "main")
              \/ GitStatusDone(q, FALSE, 2))
            => sessions' = sessions]_vars

\* the flush timer has fired after the record went away (the buffer was left
\* as it was), and every git command of the session has returned
C31_Witness ==
  /\ "u1" \notin DOMAIN sessions
  /\ "u1" \in DOMAIN cwdBufferTimeouts /\ ~cwdBufferTimeouts["u1"].pending
  /\ BufferOf("u1") # <<>>
  /\ "u1" \in DOMAIN gitDebounce /\ ~gitDebounce["u1"].pending
  /\ gitExec = {}

----------------------------------------------------------------------------
(* Git commands of two directories in flight together: C32 *)

RaceChunks == {BfPs, BfMingw}

\* one step lets the flush timer and the git timer run out
RaceSteps == {500}

\* what the git commands print in a directory: C:\proj is on main with two
\* changed files, every other directory on dev and clean
RepoOf(cwd) ==
  IF cwd = <<"C", ":", "\\", "proj">> THEN [branch |-> "main", dirty |-> 2]
  ELSE [branch |-> "dev", dirty |-> 0]

NextRace ==
  \/ SessionAdd("u1")
  \/ \E data \in RaceChunks : QuietBefore /\ SessionAddData(data)
  \/ \E d \in RaceSteps : AdvanceTime(d)
  \/ CwdBufferTimeout("u1")
  \/ GitDebounceTimeout("u1")
  \/ \E q \in gitExec : GitRevParseDone(q, FALSE)
  \/ \E q \in gitExec : GitBranchDone(q, FALSE, RepoOf(q.cwd).branch)
  \/ \E q \in gitExec : GitStatusDone(q, FALSE, RepoOf(q.cwd).dirty)

SpecRace == InitBuf /\ [][NextRace]_vars

\* every git check of the session is over: no timer pending, no command in flight
GitSettled(uid) ==
  /\ uid \in DOMAIN gitDebounce /\ ~gitDebounce[uid].pending
  /\ \A q \in gitExec : q.uid # uid

\* C32 as stated: once every git check of a session is over, the session's git
\* info is what the git commands print in the session's current cwd
C32_GitInfoOfCurrentCwd ==
  \A uid \in DOMAIN sessions :
    (GitSettled(uid) /\ sessions[uid].cwd # <<>>)
      => sessions[uid].git = RepoOf(sessions[uid].cwd)

----------------------------------------------------------------------------
(* How a bound session gets to idle: C33 *)

\* C33: a bound session that is not idle becomes idle only by a chunk for it
\* without spinner glyph and state pattern, more than idleTimeout after its
\* last activity, and only from thinking or waiting; so never from working and
\* never by a tick
C33_IdleOnlyByLateChunk ==
  [][\A uid \in DOMAIN sessions \cap DOMAIN sessions' :
       (/\ IsBound(sessions[uid])
        /\ sessions[uid].claudeState # "idle"
        /\ sessions'[uid].claudeState = "idle")
         => /\ sessions[uid].claudeState \in {"thinking", "waiting"}
            /\ now - OrZero(sessions[uid].claudeLastActivity) > THRESHOLDS.idleTimeout
            /\ store.activeUid = uid
            /\ \E data \in TimeoutChunks : PatternFree(data) /\ SessionAddData(data)]_vars

\* the session went back to idle after it had been working: it is idle since
\* this chunk and still has the glyph index of its working time
C33_Witness ==
  \E uid \in DOMAIN sessions :
    /\ IsBound(sessions[uid])
    /\ sessions[uid].claudeState = "idle"
    /\ sessions[uid].claudeSpinnerPhase # Null
    /\ sessions[uid].claudeLastStateChange = now
    /\ sessions[uid].lastOutput = ChPlain

----------------------------------------------------------------------------
(* Chunks that change no assistant state: C34 *)

\* no rule of the detector calls for a change: no spinner glyph, no state
\* pattern, and neither timeout rule applies
NoChangeComputed(data) ==
  LET session == sessions[store.activeUid]
      since   == now - OrZero(session.claudeLastActivity)
  IN /\ PatternFree(data)
     /\ ~(session.claudeState = "working" /\ since > THRESHOLDS.spinnerIdleTimeout)
     /\ ~(since > THRESHOLDS.idleTimeout /\ session.claudeState # "idle")

\* C34: a chunk for a bound session whose change is dropped by the debounce,
\* or for which no change is computed, leaves assistantState, spinnerPhase and
\* lastStateChangeTime (and the binding) as they were; of the assistant fields
\* only lastActivityTime is written
C34_DroppedChunkKeepsState ==
  [][\A data \in TimeoutChunks :
       (/\ ChunkForBound(data)
        /\ SinceStateChange < THRESHOLDS.stateDebounce \/ NoChangeComputed(data))
         => LET before == sessions[store.activeUid]
                after  == sessions'[store.activeUid]
            IN /\ after.claudeState = before.claudeState
               /\ after.claudeSpinnerPhase = before.claudeSpinnerPhase
               /\ after.claudeLastStateChange = before.claudeLastStateChange
               /\ after.claudeDetected = before.claudeDetected
               /\ after.aiAssistantId = before.aiAssistantId
               /\ after.claudeLastActivity = now]_vars

\* a plain chunk came 500 ms after the session had begun working: outside the
\* debounce, no rule applied, and the session is still working
C34_Witness ==
  \E uid \in DOMAIN sessions :
    /\ IsBound(sessions[uid])
    /\ sessions[uid].lastOutput = ChPlain
    /\ sessions[uid].claudeState = "working"
    /\ sessions[uid].claudeLastActivity = now
    /\ sessions[uid].claudeLastStateChange = now - THRESHOLDS.stateDebounce

----------------------------------------------------------------------------
(* The assistant fields of bound and unbound sessions: C35 *)

\* C35: a session that is not bound to an assistant has assistantState null
\* and spinnerPhase null, and a bound session has one of the four states
C35_StateFitsBinding ==
  \A uid \in DOMAIN sessions :
    IF IsBound(sessions[uid])
    THEN sessions[uid].claudeState \in {"idle", "working", "thinking", "waiting"}
    ELSE sessions[uid].claudeState = "null" /\ sessions[uid].claudeSpinnerPhase = Null

\* a bound session that has been working and has since moved on to waiting
C35_Witness ==
  \E uid \in DOMAIN sessions :
    /\ IsBound(sessions[uid])
    /\ sessions[uid].claudeState = "waiting"
    /\ sessions[uid].claudeSpinnerPhase \in SPINNER_CHARS

----------------------------------------------------------------------------
(* The sync of pollSessions with the host's store: C36 *)

\* a prompt, and a spinner chunk that binds the session
SyncChunks == {BfPs, ChSpinner}

\* past activityTimeout: a poll in the same instant as a chunk finds nothing to
\* sweep, a poll after the step does
SyncSteps == {2000}

NextSync ==
  \/ \E uid \in Uids : SessionAdd(uid)
  \/ \E data \in SyncChunks : QuietBefore /\ SessionAddData(data)
  \/ \E d \in SyncSteps : AdvanceTime(d)
  \/ PollSessions
  \/ \E uid \in Uids : CwdBufferTimeout(uid)
  \/ \E uid \in Uids : SessionUserExit(uid)
  \/ OnUnload

SpecSync == InitBuf /\ [][NextSync]_vars

----------------------------------------------------------------------------
(* Chunks of one to five characters: C37 *)

\* one spinner glyph and nothing else: a chunk of one character
ChGlyph == <<Spin(4)>>

KeyChunks == {ChKey, ChGlyph, ChPlain}

\* inside the flush timeout, and past it
KeySteps == {100, 500}

NextKey ==
  \/ SessionAdd("u1")
  \/ \E data \in KeyChunks : SessionAddData(data)
  \/ \E d \in KeySteps : AdvanceTime(d)
  \/ PollSessions
  \/ CwdBufferTimeout("u1")

SpecKey == InitState /\ [][NextKey]_vars

\* C37: a chunk of 1 to 5 characters leaves lastOutputTime, outputBurstCount,
\* lastOutputType and the unseen-activity flag as they were; it is appended to
\* the CWD buffer, restarts the flush timer, and goes through assistant
\* detection (it stamps lastActivityTime of a bound session, and binds an
\* unbound one if it holds a spinner glyph)
C37_ShortChunkStillBuffered ==
  [][\A data \in KeyChunks :
       LET cur == store.activeUid IN
       (/\ StrLen(data) \in 1..5
        /\ cur \in DOMAIN sessions
        /\ SessionAddData(data))
         => LET before == sessions[cur]
                after  == sessions'[cur]
            IN /\ after.lastOutputTime = before.lastOutputTime
               /\ after.outputBurstCount = before.outputBurstCount
               /\ after.lastOutputType = before.lastOutputType
               /\ after.lastOutputTypeTime = before.lastOutputTypeTime
               /\ after.hasActivity = before.hasActivity
               /\ after.activityTime = before.activityTime
               /\ cwdBuffers'[cur] = Concat(BufferOf(cur), data)
               /\ StrLen(cwdBuffers'[cur]) = StrLen(BufferOf(cur)) + StrLen(data)
               /\ cwdBufferTimeouts'[cur] = FlushTimer(now, 1)
               /\ IsBound(before) => after.claudeLastActivity = now
               /\ (~IsBound(before) /\ SpinnerRegexTest(data))
                    => IsBound(after) /\ after.claudeLastActivity = now]_vars

\* a one-glyph chunk came 100 ms after a longer chunk that had raised the
\* unseen-activity flag: the flag and the output time are those of the longer
\* chunk, the glyph is in the buffer and the session is bound
C37_Witness ==
  \E uid \in DOMAIN sessions :
    /\ sessions[uid].lastOutput = ChGlyph
    /\ sessions[uid].hasActivity
    /\ sessions[uid].lastOutputTime = now - 100
    /\ IsBound(sessions[uid])
    /\ sessions[uid].claudeLastActivity = now
    /\ BufferOf(uid) = ChPlain \o ChGlyph
    /\ cwdBufferTimeouts[uid] = FlushTimer(now, 1)

----------------------------------------------------------------------------
(* Assistant detection switched off: C38 *)

\* the state when the plugin has been loaded with enableClaudeDetection: false
\* in the user's configuration
InitOff ==
  /\ now = StartTime
  /\ advances = 0
  /\ detector \in {"legacy", "registry"}
  /\ userConfig = [enableClaudeDetection |-> FALSE]
  /\ store = [sessions |-> Empty, activeUid |-> NoUid, life |-> [u \in Uids |-> "fresh"]]
  /\ sessions = Empty
  /\ activeUid = NoUid
  /\ cwdBuffers = Empty
  /\ cwdBufferTimeouts = Empty
  /\ gitDebounce = Empty
  /\ visibleSessions = {}
  /\ gitExec = {}
  /\ polled = FALSE
  /\ received = Empty
  /\ xin = <<>>
  /\ xout = <<>>
  /\ cleared = {}

\* chunks that would bind the session and move its state, and a keystroke
OffChunks == {ChSpinner, ChThinking, ChKey}

\* inside BURST_THRESHOLD, and past the flush timeout
OffSteps == {100, 500}

NextOff ==
  \/ SessionAdd("u1")
  \/ \E data \in OffChunks : SessionAddData(data)
  \/ \E d \in OffSteps : AdvanceTime(d)
  \/ PollSessions
  \/ CwdBufferTimeout("u1")

SpecOff == InitOff /\ [][NextOff]_vars

\* the assistant fields are those of a new record
AssistantFieldsInitial(session) ==
  /\ ~session.claudeDetected
  /\ session.aiAssistantId = "null"
  /\ session.claudeState = "null"
  /\ session.claudeSpinnerPhase = Null
  /\ session.claudeLastActivity = Null
  /\ session.claudeLastStateChange = Null
  /\ session.detectedActivity = "null"

\* C38: with enableClaudeDetection false the assistant fields of every session
\* stay at their initial values whatever chunk arrives, while the chunk is
\* classified (a chunk of more than 5 characters stamps lastOutputTime and
\* gives command or output, a shorter one typing), appended to the CWD buffer
\* and restarts the flush timer
C38_DetectionOffLeavesFields ==
  /\ [](\A uid \in DOMAIN sessions : AssistantFieldsInitial(sessions[uid]))
  /\ [][\A data \in OffChunks :
          LET cur == store.activeUid IN
          (cur \in DOMAIN sessions /\ SessionAddData(data))
            => /\ AssistantFieldsInitial(sessions'[cur])
               /\ IF StrLen(data) > 5
                  THEN /\ sessions'[cur].lastOutputTime = now
                       /\ sessions'[cur].activityType \in {"command", "output"}
                  ELSE sessions'[cur].activityType = "typing"
               /\ cwdBuffers'[cur] = Concat(BufferOf(cur), data)
               /\ cwdBufferTimeouts'[cur] = FlushTimer(now, 1)]_vars

\* a chunk naming the assistant came 100 ms after another chunk: it counts as
\* command output and is in the buffer, and the session is not bound
C38_Witness ==
  \E uid \in DOMAIN sessions :
    /\ ~userConfig.enableClaudeDetection
    /\ sessions[uid].lastOutput = ChThinking
    /\ sessions[uid].activityType = "command"
    /\ sessions[uid].lastOutputTime = now
    /\ BufferOf(uid) = ChSpinner \o ChThinking
    /\ AssistantFieldsInitial(sessions[uid])

====
